---- MODULE Spec2Model ----
(***************************************************************************)
(* A model of the analysis core of QFOlysis (src/app/lib/analyzer.ts, the  *)
(* second, chunk-based version of the file that starts at line 500), of    *)
(* the topic detector (topic-detector.ts), the scraper (scraper.ts) and    *)
(* the memory cache (cache.ts).                                            *)
(*                                                                         *)
(* Numbers.  A similarity is a float in the code; in the batch and the     *)
(* analysis groups it is an integer number of hundredths (SimScale = 100,  *)
(* the factor of line 813), which is exact for the embedding vectors those *)
(* groups draw; the cosine, match and topic groups compute with exact      *)
(* IEEE-754 doubles.  A competitor average is kept as an exact fraction    *)
(* [num, den], and every comparison with it is done by                     *)
(* cross-multiplication, so that no rounding is introduced.                *)
(*                                                                         *)
(* Strings.  Where the characters of a string matter (chunks, queries      *)
(* being categorized) the string is the sequence of its characters.        *)
(*                                                                         *)
(* The module holds one group of variables per modelled operation and one  *)
(* specification per group; a specification leaves the other groups idle.  *)
(***************************************************************************)
EXTENDS Integers, Sequences, FiniteSets, TLC

VARIABLES
    \* identifyCoverageGaps: the arguments of the call, its result, and the
    \* arguments and result of the call before it
    targetScores, competitorResults, queryMatches, gaps,
    prevCompetitorResults, prevGaps, gapPc,
    \* calculateCategoryScores: the argument of the call and its result
    scoreMatches, categoryScores, scorePc,
    \* analyzeContentSimilarity: the arguments of the call (the content as the
    \* number of its chunks), the chunk embeddings that survived, the loop
    \* offset i, the positions of the batch's queries still being processed,
    \* the records of those that settled, the results, the positions of the
    \* queries whose processing threw, and the positions of the queries whose
    \* embedding came with another length than the chunks'
    simChunkCount, simQueries, simThreshold, validChunkEmbeddings, simOffset,
    simPending, simBatchResults, simResults, simFailedQueries,
    simOtherLengthQueries, simPc,
    \* performContentAnalysis: the arguments of the call (each content as the
    \* number of its chunks), allQueries, the target's matches, category scores
    \* and number of embedded chunks, the competitor results pushed so far, and
    \* the AnalysisResult returned
    customQueries, targetChunkCount, competitorChunkCounts, allQueries,
    targetMatches, targetCategoryScores, targetEmbeddedChunks,
    analysisCompetitorResults, analysisResult, analysisPc,
    \* scrapeMultipleUrls: the arguments of the call, results, errors, the loop
    \* offset i, the positions of the batch's scrapes not yet settled, and the
    \* positions of the scrapes that failed
    scrapeUrls, scrapeConcurrency, scrapeResults, scrapeErrors, scrapeOffset,
    scrapePending, scrapeFailed, scrapePc,
    \* chunkContent: the arguments of the call (a string is the sequence of its
    \* characters), the paragraphs, the number of paragraphs already handled,
    \* chunks, and the list returned
    content, maxChunkSize, paragraphs, paragraphsDone, chunks, chunksReturned,
    chunkPc,
    \* cosineSimilarity: the arguments of the call and the number returned
    cosA, cosB, cosResult, cosPc,
    \* categorizeQuery: the argument of the call, the number of categories of
    \* the table already tried, and the category returned
    catQuery, catTried, catResult, catPc,
    \* extractPrimaryTopic: the argument of the call, whether OPENAI_API_KEY is
    \* set, the number of requests sent to the LLM, the candidates map in the
    \* order of insertion, fallbackBodyEntities, the best candidate (bestEntity,
    \* bestScore, bestSources, bestFrequency, bestType), subEntities, and the
    \* PrimaryTopic returned
    topicContent, apiKey, llmRequests, candidates, fallbackBodyEntities, bestData,
    subEntities, topicResult, topicPc,
    \* the best chunk of a query in analyzeContentSimilarity, with doubles: the
    \* embedding of the query, the embeddings of validChunkEmbeddings, the
    \* number of chunks already compared, bestSimilarity, bestChunk,
    \* bestChunkIndex, and the QueryMatch returned
    matchQueryEmbedding, matchChunkEmbeddings, matchCompared,
    matchBestSimilarity, matchBestChunk, matchBestChunkIndex, matchResult,
    matchPc,
    \* scrapeContent: the argument of the call, whether FIRECRAWL_API_KEY is
    \* set, the loop counter attempt, lastError, the requests sent in their
    \* order, the delay being waited for, what the call returned or threw
    retryUrl, firecrawlApiKey, attempt, lastError, requests, retryDelay,
    retryOutcome, retryPc,
    \* the memory cache of cache.ts: the entries of memoryCache in their
    \* insertion order, Date.now(), the calls awaiting initRedisClient, the
    \* calls made so far, what the last getCache returned
    memoryCache, cacheNow, cacheCalls, cacheCallCount, cacheReturned,
    cachePc

matchVars == <<matchQueryEmbedding, matchChunkEmbeddings, matchCompared,
               matchBestSimilarity, matchBestChunk, matchBestChunkIndex,
               matchResult, matchPc>>

retryVars == <<retryUrl, firecrawlApiKey, attempt, lastError, requests,
               retryDelay, retryOutcome, retryPc>>

cacheVars == <<memoryCache, cacheNow, cacheCalls, cacheCallCount,
               cacheReturned, cachePc>>

topicVars == <<topicContent, apiKey, llmRequests, candidates, fallbackBodyEntities,
               bestData, subEntities, topicResult, topicPc>>

catVars == <<catQuery, catTried, catResult, catPc>>

cosVars == <<cosA, cosB, cosResult, cosPc>>

chunkVars == <<content, maxChunkSize, paragraphs, paragraphsDone, chunks,
               chunksReturned, chunkPc>>

scrapeVars == <<scrapeUrls, scrapeConcurrency, scrapeResults, scrapeErrors,
                scrapeOffset, scrapePending, scrapeFailed, scrapePc>>

analysisVars == <<customQueries, targetChunkCount, competitorChunkCounts,
                  allQueries, targetMatches, targetCategoryScores,
                  targetEmbeddedChunks, analysisCompetitorResults,
                  analysisResult, analysisPc>>

scoreVars == <<scoreMatches, categoryScores, scorePc>>

simVars == <<simChunkCount, simQueries, simThreshold, validChunkEmbeddings,
             simOffset, simPending, simBatchResults, simResults,
             simFailedQueries, simOtherLengthQueries, simPc>>

gapVars == <<targetScores, competitorResults, queryMatches, gaps,
             prevCompetitorResults, prevGaps, gapPc>>

vars == <<gapVars, scoreVars, simVars, analysisVars, scrapeVars, chunkVars,
          cosVars, catVars, topicVars,
      matchVars,
      retryVars,
      cacheVars>>

\* what a group's actions leave alone
notGapVars ==
    <<scoreVars, simVars, analysisVars, scrapeVars, chunkVars, cosVars,
      catVars,
      topicVars,
      matchVars,
      retryVars,
      cacheVars>>

notScoreVars ==
    <<gapVars, simVars, analysisVars, scrapeVars, chunkVars, cosVars,
      catVars,
      topicVars,
      matchVars,
      retryVars,
      cacheVars>>

notSimVars ==
    <<gapVars, scoreVars, analysisVars, scrapeVars, chunkVars, cosVars,
      catVars,
      topicVars,
      matchVars,
      retryVars,
      cacheVars>>

notAnalysisVars ==
    <<gapVars, scoreVars, simVars, scrapeVars, chunkVars, cosVars,
      catVars,
      topicVars,
      matchVars,
      retryVars,
      cacheVars>>

notScrapeVars ==
    <<gapVars, scoreVars, simVars, analysisVars, chunkVars, cosVars,
      catVars,
      topicVars,
      matchVars,
      retryVars,
      cacheVars>>

notChunkVars ==
    <<gapVars, scoreVars, simVars, analysisVars, scrapeVars, cosVars,
      catVars,
      topicVars,
      matchVars,
      retryVars,
      cacheVars>>

notCosVars ==
    <<gapVars, scoreVars, simVars, analysisVars, scrapeVars, chunkVars, catVars,
      topicVars,
      matchVars,
      retryVars,
      cacheVars>>

notCatVars ==
    <<gapVars, scoreVars, simVars, analysisVars, scrapeVars, chunkVars, cosVars,
      topicVars,
      matchVars,
      retryVars,
      cacheVars>>

notTopicVars ==
    <<gapVars, scoreVars, simVars, analysisVars, scrapeVars, chunkVars, cosVars,
      catVars,
      matchVars,
      retryVars,
      cacheVars>>

notMatchVars ==
    <<gapVars, scoreVars, simVars, analysisVars, scrapeVars, chunkVars,
      cosVars, catVars, topicVars,
      retryVars,
      cacheVars>>

notRetryVars ==
    <<gapVars, scoreVars, simVars, analysisVars, scrapeVars, chunkVars,
      cosVars, catVars, topicVars, matchVars,
      cacheVars>>

notCacheVars ==
    <<gapVars, scoreVars, simVars, analysisVars, scrapeVars, chunkVars,
      cosVars, catVars, topicVars, matchVars, retryVars>>

(***************************************************************************)
(* Bounds of the model                                                     *)
(***************************************************************************)
\* competitors handed to identifyCoverageGaps
MaxCompetitors == 2
\* query matches handed to identifyCoverageGaps
MaxGapMatches == 8
\* query matches handed to calculateCategoryScores
MaxScoreMatches == 3
\* queries handed to analyzeContentSimilarity
MaxQueries == 6
\* chunks of the content handed to analyzeContentSimilarity
MaxChunks == 2
\* queries of a call whose embedding has another length than the chunks'
MaxOtherLength == 1
\* custom queries, queries of a generateQueries reply, chunks of a content and
\* competitor contents handed to performContentAnalysis
MaxCustomQueries == 1
MaxGeneratedQueries == 2
MaxAnalysisChunks == 1
MaxAnalysisCompetitors == 1
\* urls handed to scrapeMultipleUrls
MaxUrls == 4
\* paragraphs of the content handed to chunkContent, sentences of a paragraph
MaxParagraphs == 2
MaxSentences == 2
\* length of the vectors handed to cosineSimilarity
MaxVectorLength == 3
\* words of a query handed to categorizeQuery
MaxWords == 2
\* the headings of a page and the entities extracted from it
MaxHeadings == 1
MaxExtracted == 1
\* the chunk embeddings of a query whose best chunk is searched
MaxMatchChunks == 2

\* the calls of the cache's functions in a run, and the readings of the clock
MaxCacheCalls == 2

MaxTicks == 2

(***************************************************************************)
(* Helpers                                                                 *)
(***************************************************************************)
Max(a, b) == IF a >= b THEN a ELSE b

Min(a, b) == IF a <= b THEN a ELSE b

MinOf(S) == CHOOSE x \in S : \A y \in S : x <= y

Range(s) == {s[i] : i \in DOMAIN s}

\* Array.prototype.slice(0, n)
Slice(s, n) == SubSeq(s, 1, Min(Len(s), n))

\* str occurs in text as a run of consecutive characters
IsSubstring(str, text) ==
    \E i \in 0..(Len(text) - Len(str)) : SubSeq(text, i + 1, i + Len(str)) = str

RECURSIVE SumSeq(_)
SumSeq(s) == IF s = <<>> THEN 0 ELSE Head(s) + SumSeq(Tail(s))

\* the sequences over S without a repeated element
InjectiveSeqs(S) ==
    {s \in UNION {[1..n -> S] : n \in 0..Cardinality(S)} :
        \A i, j \in DOMAIN s : i # j => s[i] # s[j]}

\* Array.prototype.sort with the comparator (a, b) => key(b) - key(a), keys[i]
\* being the key of s[i]: a stable sort into non-increasing key order.
SortDesc(s, keys) ==
    LET place(i) == 1 + Cardinality({j \in DOMAIN s :
                        \/ keys[j] > keys[i]
                        \/ keys[j] = keys[i] /\ j < i})
    IN  [p \in DOMAIN s |-> s[CHOOSE i \in DOMAIN s : place(i) = p]]

(***************************************************************************)
(* identifyCoverageGaps (analyzer.ts 852-912)                              *)
(***************************************************************************)
\* categoryScores.find(s => s.category === category): <<>> for undefined,
\* else the one-element sequence of the first entry of that category
FindCategory(scores, category) ==
    LET hits == {i \in DOMAIN scores :
                    scores[i].category = category}
    IN  IF hits = {} THEN <<>> ELSE <<scores[MinOf(hits)]>>

\* competitor.categoryScores.find(...)?.score || 0
ScoreOrZero(scores, category) ==
    LET found == FindCategory(scores, category)
    IN  IF found = <<>> THEN 0 ELSE found[1].score

\* reduce(sum + score, 0) / Math.max(competitorResults.length, 1), as a fraction
competitorAvg(category, cResults) ==
    [num |-> SumSeq([i \in DOMAIN cResults |->
                        ScoreOrZero(cResults[i].categoryScores, category)]),
     den |-> Max(Len(cResults), 1)]

\* score < avg - points
BelowAvgBy(score, avg, points) == score * avg.den < avg.num - points * avg.den

\* line 869 with <= for <
HasGapInclusive(score, avg) == score * avg.den <= avg.num - 10 * avg.den

\* the 10-point gap threshold of line 869
HasGap(score, avg) == BelowAvgBy(score, avg, 10)

\* lines 882-883 with the comparisons turned round
gapPriorityReversed(score, avg) ==
    IF ~BelowAvgBy(score, avg, 30) THEN "high"
    ELSE IF ~BelowAvgBy(score, avg, 20) THEN "medium" ELSE "low"

\* lines 882-883
gapPriority(score, avg) ==
    IF BelowAvgBy(score, avg, 30) THEN "high"
    ELSE IF BelowAvgBy(score, avg, 20) THEN "medium" ELSE "low"

\* lines 870-873
missingQueriesOf(category, qMatches) ==
    LET unmatched == SelectSeq(qMatches,
                        LAMBDA q : q.category = category /\ ~q.matched)
    IN  Slice([i \in DOMAIN unmatched |-> unmatched[i].query], 5)

\* lines 875-880 without the comparison of the scores
competitorUrlsOfReporting(targetCategory, cResults) ==
    LET reporting == SelectSeq(cResults, LAMBDA c :
                        FindCategory(c.categoryScores, targetCategory.category) # <<>>)
    IN  [i \in DOMAIN reporting |-> reporting[i].url]

\* lines 875-880
competitorUrlsOf(targetCategory, cResults) ==
    LET above == SelectSeq(cResults, LAMBDA c :
                    LET found == FindCategory(c.categoryScores,
                                              targetCategory.category)
                    IN  found # <<>> /\ found[1].score > targetCategory.score)
    IN  [i \in DOMAIN above |-> above[i].url]

\* generateRecommendation (917-935): the category's template (or the default
\* one) and the first three missing queries it names
RecommendationTemplates ==
    {"Technical", "Marketing", "SEO", "Content", "Business", "Design", "Analytics"}

generateRecommendation(category, missingQueries) ==
    [base |-> IF category \in RecommendationTemplates THEN category ELSE "default",
     focus |-> Slice(missingQueries, 3)]

\* the gap pushed at lines 897-904 (topicRelevance, a float computed from the
\* optional primaryTopic argument and read by nothing in this file, is left out)
GapOf(targetCategory, cResults, qMatches) ==
    LET avg == competitorAvg(targetCategory.category, cResults)
        missing == missingQueriesOf(targetCategory.category, qMatches)
    IN  [category |-> targetCategory.category,
         missingQueries |-> missing,
         competitorUrls |-> competitorUrlsOf(targetCategory, cResults),
         priority |-> gapPriority(targetCategory.score, avg),
         recommendation |-> generateRecommendation(targetCategory.category, missing)]

priorityOrder(p) == CASE p = "high" -> 3 [] p = "medium" -> 2 [] p = "low" -> 1

GapRank(g) == priorityOrder(g.priority)

RECURSIVE CollectGaps(_, _, _)
CollectGaps(tScores, cResults, qMatches) ==
    IF tScores = <<>> THEN <<>>
    ELSE LET t == Head(tScores)
             rest == CollectGaps(Tail(tScores), cResults, qMatches)
         IN  IF HasGap(t.score, competitorAvg(t.category, cResults))
             THEN <<GapOf(t, cResults, qMatches)>> \o rest
             ELSE rest

identifyCoverageGaps(tScores, cResults, qMatches) ==
    LET found == CollectGaps(tScores, cResults, qMatches)
    IN  SortDesc(found, [g \in DOMAIN found |-> GapRank(found[g])])

(***************************************************************************)
(* The inputs of identifyCoverageGaps                                      *)
(***************************************************************************)
GapCategories == {"SEO", "Content"}

CategoryOrder == <<"SEO", "Content">>

TargetScoreValues == {25, 50}

CompetitorScoreValues == {70, 90}

\* the category score lists of a target: distinct categories (they are the
\* keys of a Map in calculateCategoryScores), in any order
TargetInputs ==
    UNION {{[i \in DOMAIN cats |-> [category |-> cats[i], score |-> sc[i]]] :
                sc \in [DOMAIN cats -> TargetScoreValues]} :
           cats \in InjectiveSeqs(GapCategories)}

\* the category score list of one competitor: each category scored or absent
CompetitorScoreLists ==
    UNION {{LET present == SelectSeq(CategoryOrder, LAMBDA c : c \in reported)
            IN  [i \in DOMAIN present |->
                    [category |-> present[i], score |-> sc[present[i]]]] :
                sc \in [reported -> CompetitorScoreValues]} :
           reported \in SUBSET GapCategories}

\* competitor i's url is modelled by i
CompetitorInputs ==
    UNION {{[i \in 1..n |-> [url |-> i, categoryScores |-> cs[i]]] :
                cs \in [1..n -> CompetitorScoreLists]} :
           n \in 0..MaxCompetitors}

\* the target's query matches: the first MaxGapMatches, or one less, of a
\* list of unmatched "SEO" queries in which one of every eight is of the
\* other category and one is matched; query i is modelled by i
GapMatchPool(n) ==
    [i \in 1..n |-> [query |-> i,
                     category |-> IF i % 8 = 1 THEN "Content" ELSE "SEO",
                     matched |-> (i % 8 = 2)]]

GapMatchInputs == {GapMatchPool(MaxGapMatches - 1), GapMatchPool(MaxGapMatches)}

\* cResults with the scores of one category replaced (newScores gives the
\* new score of each competitor that reports the category): the second input
\* of two that differ only in the competitors' scores for that category
Rescored(cResults, category, newScores) ==
    [i \in DOMAIN cResults |->
        LET others == SelectSeq(cResults[i].categoryScores,
                                LAMBDA s : s.category # category)
        IN  [cResults[i] EXCEPT !.categoryScores =
                IF i \notin DOMAIN newScores THEN others
                ELSE others \o <<[category |-> category, score |-> newScores[i]]>>]]

GapInit ==
    /\ targetScores \in TargetInputs
    /\ competitorResults \in CompetitorInputs
    /\ queryMatches \in GapMatchInputs
    /\ gaps = <<>>
    /\ prevCompetitorResults = <<>>
    /\ prevGaps = <<>>
    /\ gapPc = "call"

\* inputs with scores of 0, and with competitors that score a category
\* lower than the target does
LowTargetScoreValues == {0, 25}

LowCompetitorScoreValues == {0, 20, 90}

LowTargetInputs ==
    UNION {{[i \in DOMAIN cats |-> [category |-> cats[i], score |-> sc[i]]] :
                sc \in [DOMAIN cats -> LowTargetScoreValues]} :
           cats \in InjectiveSeqs(GapCategories)}

LowCompetitorScoreLists ==
    UNION {{LET present == SelectSeq(CategoryOrder, LAMBDA c : c \in reported)
            IN  [i \in DOMAIN present |->
                    [category |-> present[i], score |-> sc[present[i]]]] :
                sc \in [reported -> LowCompetitorScoreValues]} :
           reported \in SUBSET GapCategories}

LowCompetitorInputs ==
    UNION {{[i \in 1..n |-> [url |-> i, categoryScores |-> cs[i]]] :
                cs \in [1..n -> LowCompetitorScoreLists]} :
           n \in 0..MaxCompetitors}

GapUrlsInit ==
    /\ targetScores \in LowTargetInputs
    /\ competitorResults \in LowCompetitorInputs
    /\ queryMatches = GapMatchPool(MaxGapMatches)
    /\ gaps = <<>>
    /\ prevCompetitorResults = <<>>
    /\ prevGaps = <<>>
    /\ gapPc = "call"

\* a call of identifyCoverageGaps
IdentifyCoverageGaps ==
    /\ gapPc = "call"
    /\ gaps' = identifyCoverageGaps(targetScores, competitorResults, queryMatches)
    /\ gapPc' = "done"
    /\ UNCHANGED <<targetScores, competitorResults, queryMatches,
                   prevCompetitorResults, prevGaps>>
    /\ UNCHANGED notGapVars

\* a further call, with the same target and the competitors' scores of one
\* category changed
IdentifyCoverageGapsAgain ==
    /\ gapPc = "done"
    /\ \E category \in GapCategories :
       \E reporting \in SUBSET DOMAIN competitorResults :
       \E newScores \in [reporting -> CompetitorScoreValues] :
          /\ competitorResults' = Rescored(competitorResults, category, newScores)
          /\ competitorResults' # competitorResults
    /\ prevCompetitorResults' = competitorResults
    /\ prevGaps' = gaps
    /\ gaps' = identifyCoverageGaps(targetScores, competitorResults', queryMatches)
    /\ gapPc' = "again"
    /\ UNCHANGED <<targetScores, queryMatches>>
    /\ UNCHANGED notGapVars

GapNext == IdentifyCoverageGaps \/ IdentifyCoverageGapsAgain

GapIdle ==
    /\ targetScores = <<>>
    /\ competitorResults = <<>>
    /\ queryMatches = <<>>
    /\ gaps = <<>>
    /\ prevCompetitorResults = <<>>
    /\ prevGaps = <<>>
    /\ gapPc = "idle"

(***************************************************************************)
(* calculateCategoryScores (analyzer.ts 794-818)                           *)
(***************************************************************************)
\* lines 798-800 without the has() test: an entry per match
mapKeysPerMatch(qMatches) == [i \in DOMAIN qMatches |-> qMatches[i].category]

\* the keys of the Map of line 795 in insertion order: the categories of the
\* matches, each at its first occurrence
mapKeys(qMatches) ==
    LET first == SelectSeq([i \in DOMAIN qMatches |-> i], LAMBDA i :
                    \A j \in 1..(i - 1) : qMatches[j].category # qMatches[i].category)
    IN  [k \in DOMAIN first |-> qMatches[first[k]].category]

\* the matches counted into a category's entry (lines 802-804)
matchesOfCategory(qMatches, category) ==
    SelectSeq(qMatches, LAMBDA m : m.category = category)

\* lines 806-808 without the test of match.matched
matchedCountAll(group) == Len(group)

\* lines 806-808: categoryData.matched
matchedCount(group) == Len(SelectSeq(group, LAMBDA m : m.matched))

\* Math.round(total / count), total and count integers, count > 0: the
\* nearest integer, a half rounded up
RoundedMean(total, count) == (2 * total + count) \div (2 * count)

\* line 813: Math.round(mean(similarity) * 100), similarities in hundredths
categoryScoreOf(group) ==
    RoundedMean(SumSeq([i \in DOMAIN group |-> group[i].similarity]), Len(group))

calculateCategoryScores(qMatches) ==
    LET keys == mapKeys(qMatches)
    IN  [k \in DOMAIN keys |->
            LET group == matchesOfCategory(qMatches, keys[k])
            IN  [category |-> keys[k],
                 score |-> categoryScoreOf(group),
                 maxScore |-> 100,
                 matchedQueries |-> matchedCount(group),
                 totalQueries |-> Len(group)]]

\* the categories a match can carry: categorizeQuery's "SEO" and "General",
\* and the "general" of a query whose processing failed (line 736)
ScoreCategories == {"SEO", "General", "general"}

ScoreSimilarities == {15, 80}

ScoreMatchRecords ==
    [query : {"q"}, category : ScoreCategories,
     similarity : ScoreSimilarities, matched : BOOLEAN]

ScoreMatchInputs == UNION {[1..n -> ScoreMatchRecords] : n \in 0..MaxScoreMatches}

ScoreInit ==
    /\ scoreMatches \in ScoreMatchInputs
    /\ categoryScores = <<>>
    /\ scorePc = "call"

\* a call of calculateCategoryScores
CalculateCategoryScores ==
    /\ scorePc = "call"
    /\ categoryScores' = calculateCategoryScores(scoreMatches)
    /\ scorePc' = "done"
    /\ UNCHANGED scoreMatches
    /\ UNCHANGED notScoreVars

ScoreNext == CalculateCategoryScores

ScoreIdle ==
    /\ scoreMatches = <<>>
    /\ categoryScores = <<>>
    /\ scorePc = "idle"

(***************************************************************************)
(* cosineSimilarity (analyzer.ts 553-570)                                  *)
(***************************************************************************)
\* similarities are held in hundredths
SimScale == 100

\* Math.sqrt, of the perfect squares the model's vectors give
Sqrt(n) == CHOOSE r \in 0..n : r * r = n

DotProduct(a, b) == SumSeq([i \in DOMAIN a |-> a[i] * b[i]])

\* line 554: the vectors differ in length and cosineSimilarity throws
cosineSimilarityThrows(a, b) == Len(a) # Len(b)

\* lines 558-569, for vectors of the same length, in hundredths: exact for the
\* vectors of the similarity analysis below, whose norms are whole numbers
cosineSimilarity(a, b) ==
    LET magnitude == Sqrt(DotProduct(a, a)) * Sqrt(DotProduct(b, b))
    IN  IF magnitude = 0 THEN 0 ELSE (DotProduct(a, b) * SimScale) \div magnitude

(***************************************************************************)
(* The numbers of cosineSimilarity: IEEE 754 doubles, rounded to nearest,  *)
(* ties to even.  A natural number of any size is the sequence of its      *)
(* digits in base 2^15, the least significant first and the most           *)
(* significant not 0; a double is 0 or (-1)^neg * m * 2^e with a mantissa  *)
(* m of exactly 53 bits.  Overflow, subnormals and -0 do not arise for the *)
(* small whole components of the model.                                    *)
(***************************************************************************)
DigitBase == 2 ^ 15

DigitBits == 15

mantissaBits == 53

MaxOf(set) == CHOOSE x \in set : \A y \in set : y <= x

BigNorm(digits) ==
    LET nonzero == {i \in DOMAIN digits : digits[i] # 0}
    IN  IF nonzero = {} THEN <<>> ELSE SubSeq(digits, 1, MaxOf(nonzero))

BigDigit(a, i) == IF i \in DOMAIN a THEN a[i] ELSE 0

\* a natural number below 2^31
BigOfInt(n) ==
    BigNorm(<<n % DigitBase, (n \div DigitBase) % DigitBase,
              n \div (DigitBase * DigitBase)>>)

RECURSIVE BigAddFrom(_, _, _, _)
BigAddFrom(a, b, i, carry) ==
    IF i > Max(Len(a), Len(b))
    THEN IF carry = 0 THEN <<>> ELSE <<carry>>
    ELSE LET sum == BigDigit(a, i) + BigDigit(b, i) + carry
         IN  <<sum % DigitBase>> \o BigAddFrom(a, b, i + 1, sum \div DigitBase)

BigAdd(a, b) == BigAddFrom(a, b, 1, 0)

RECURSIVE BigTimesDigitFrom(_, _, _, _)
BigTimesDigitFrom(a, digit, i, carry) ==
    IF i > Len(a)
    THEN IF carry = 0 THEN <<>> ELSE <<carry>>
    ELSE LET product == a[i] * digit + carry
         IN  <<product % DigitBase>>
               \o BigTimesDigitFrom(a, digit, i + 1, product \div DigitBase)

RECURSIVE BigTimesFrom(_, _, _)
BigTimesFrom(a, b, j) ==
    IF j > Len(b) THEN <<>>
    ELSE BigAdd(BigTimesDigitFrom(a, b[j], 1, 0), <<0>> \o BigTimesFrom(a, b, j + 1))

BigTimes(a, b) == BigNorm(BigTimesFrom(a, b, 1))

BigLess(a, b) ==
    \/ Len(a) < Len(b)
    \/ /\ Len(a) = Len(b)
       /\ \E i \in DOMAIN a :
             /\ a[i] < b[i]
             /\ \A j \in (i + 1)..Len(a) : a[j] = b[j]

BigLeq(a, b) == a = b \/ BigLess(a, b)

BigPow2(k) ==
    [i \in 1..(k \div DigitBits + 1) |->
        IF i = k \div DigitBits + 1 THEN 2 ^ (k % DigitBits) ELSE 0]

BigShiftLeft(a, k) == BigTimes(a, BigPow2(k))

BigShiftRight(a, k) ==
    LET whole == k \div DigitBits
        part == k % DigitBits
        rest == SubSeq(a, whole + 1, Len(a))
    IN  BigNorm([i \in DOMAIN rest |->
            (rest[i] \div 2 ^ part)
              + (BigDigit(rest, i + 1) % 2 ^ part) * 2 ^ (DigitBits - part)])

BigBitLength(a) ==
    IF a = <<>> THEN 0
    ELSE DigitBits * (Len(a) - 1)
           + (CHOOSE k \in 1..DigitBits : 2 ^ (k - 1) <= a[Len(a)] /\ a[Len(a)] < 2 ^ k)

BigOdd(a) == a # <<>> /\ a[1] % 2 = 1

\* the k lowest bits of a are 0
BigLowBitsZero(a, k) == a = BigShiftLeft(BigShiftRight(a, k), k)

\* root with its bit set if the square is then at most n
BigSqrtBit(n, root, bit) ==
    LET larger == BigAdd(root, BigPow2(bit))
    IN  IF BigLeq(BigTimes(larger, larger), n) THEN larger ELSE root

\* root with the count bits from bit up set as far as the square is at most
\* n, the highest first (the test of higher has TLC evaluate it before the
\* next bit is tried, not while it is: the evaluation stays shallow)
RECURSIVE BigSqrtBits(_, _, _, _)
BigSqrtBits(n, root, bit, count) ==
    IF count = 0 THEN root
    ELSE LET higher == BigSqrtBits(n, root, bit + 1, count - 1)
         IN  IF higher = <<>> THEN BigSqrtBit(n, <<>>, bit)
             ELSE BigSqrtBit(n, higher, bit)

\* the greatest multiple of 2^bit whose square is at most n, for n below
\* 2^(2 * top), a digit at a time
RECURSIVE BigSqrtTo(_, _, _)
BigSqrtTo(n, bit, top) ==
    IF bit > top THEN <<>>
    ELSE LET root == BigSqrtTo(n, bit + DigitBits, top)
         IN  IF root = <<>> THEN BigSqrtBits(n, <<>>, bit, DigitBits)
             ELSE BigSqrtBits(n, root, bit, DigitBits)

\* quotient with its bit set if the product with d is then at most n
BigDivBit(n, d, quotient, bit) ==
    LET larger == BigAdd(quotient, BigPow2(bit))
    IN  IF BigLeq(BigTimes(larger, d), n) THEN larger ELSE quotient

RECURSIVE BigDivBits(_, _, _, _, _)
BigDivBits(n, d, quotient, bit, count) ==
    IF count = 0 THEN quotient
    ELSE LET higher == BigDivBits(n, d, quotient, bit + 1, count - 1)
         IN  IF higher = <<>> THEN BigDivBit(n, d, <<>>, bit)
             ELSE BigDivBit(n, d, higher, bit)

\* the greatest multiple of 2^bit whose product with d is at most n, for n
\* below d * 2^top, a digit at a time
RECURSIVE BigDivTo(_, _, _, _)
BigDivTo(n, d, bit, top) ==
    IF bit > top THEN <<>>
    ELSE LET quotient == BigDivTo(n, d, bit + DigitBits, top)
         IN  IF quotient = <<>> THEN BigDivBits(n, d, <<>>, bit, DigitBits)
             ELSE BigDivBits(n, d, quotient, bit, DigitBits)

FloatZero == [neg |-> FALSE, m |-> <<>>, e |-> 0]

\* the double nearest to m * 2^e, or to a number just above it when inexact
RoundToDouble(neg, m, e, inexact) ==
    LET length == BigBitLength(m)
        drop == length - mantissaBits
        kept == BigShiftRight(m, drop)
        half == BigOdd(BigShiftRight(m, drop - 1))
        above == inexact \/ ~BigLowBitsZero(m, drop - 1)
        rounded == IF half /\ (above \/ BigOdd(kept)) THEN BigAdd(kept, <<1>>) ELSE kept
    IN  IF m = <<>> THEN FloatZero
        ELSE IF drop <= 0
        THEN [neg |-> neg, m |-> BigShiftLeft(m, -drop), e |-> e + drop]
        ELSE IF BigBitLength(rounded) > mantissaBits
        THEN [neg |-> neg, m |-> BigShiftRight(rounded, 1), e |-> e + drop + 1]
        ELSE [neg |-> neg, m |-> rounded, e |-> e + drop]

\* the double of a whole number
FloatOfInt(n) == RoundToDouble(n < 0, BigOfInt(IF n < 0 THEN -n ELSE n), 0, FALSE)

\* Math.sqrt of a whole number: the root of n * 2^110 has 55 bits or more
MathSqrt(n) ==
    LET scaled == BigShiftLeft(BigOfInt(n), 110)
        root == BigSqrtTo(scaled, 0, (BigBitLength(scaled) + 1) \div 2)
    IN  RoundToDouble(FALSE, root, -55, BigTimes(root, root) # scaled)

\* x * y
FloatTimes(x, y) ==
    IF x.m = <<>> \/ y.m = <<>> THEN FloatZero
    ELSE RoundToDouble(x.neg # y.neg, BigTimes(x.m, y.m), x.e + y.e, FALSE)

\* x / y for y # 0: the quotient of x.m * 2^56 by y.m has 56 bits or more
FloatDividedBy(x, y) ==
    LET scaled == BigShiftLeft(x.m, 56)
        quotient == BigDivTo(scaled, y.m, 0, 58)
    IN  IF x.m = <<>> THEN FloatZero
        ELSE RoundToDouble(x.neg # y.neg, quotient, x.e - y.e - 56,
                           BigTimes(quotient, y.m) # scaled)

\* x < y
FloatLess(x, y) ==
    LET MagnitudeLess(u, v) ==
            /\ v.m # <<>>
            /\ \/ u.m = <<>>
               \/ u.e < v.e
               \/ u.e = v.e /\ BigLess(u.m, v.m)
    IN  IF x.neg /\ x.m # <<>>
        THEN IF y.neg /\ y.m # <<>> THEN MagnitudeLess(y, x) ELSE TRUE
        ELSE IF y.neg /\ y.m # <<>> THEN FALSE ELSE MagnitudeLess(x, y)

\* lines 558-569 in doubles, for vectors of whole numbers of the same length:
\* the sums of lines 562-564 are whole and exact
cosineSimilarityDouble(a, b) ==
    LET dotProduct == DotProduct(a, b)
        normA == DotProduct(a, a)
        normB == DotProduct(b, b)
        magnitude == FloatTimes(MathSqrt(normA), MathSqrt(normB))
    IN  IF magnitude = FloatZero THEN FloatZero
        ELSE FloatDividedBy(FloatOfInt(dotProduct), magnitude)

VectorInputs == UNION {[1..n -> {-1, 0, 1}] : n \in 0..MaxVectorLength}

CosInit ==
    /\ cosA \in VectorInputs
    /\ cosB \in VectorInputs
    /\ cosResult = <<>>
    /\ cosPc = "call"

\* lines 554-556
CosineSimilarityThrows ==
    /\ cosPc = "call"
    /\ cosineSimilarityThrows(cosA, cosB)
    /\ cosPc' = "threw"
    /\ UNCHANGED <<cosA, cosB, cosResult>>
    /\ UNCHANGED notCosVars

\* lines 558-569
CosineSimilarityReturns ==
    /\ cosPc = "call"
    /\ ~cosineSimilarityThrows(cosA, cosB)
    /\ cosResult' = <<cosineSimilarityDouble(cosA, cosB)>>
    /\ cosPc' = "returned"
    /\ UNCHANGED <<cosA, cosB>>
    /\ UNCHANGED notCosVars

CosNext ==
    \/ CosineSimilarityThrows
    \/ CosineSimilarityReturns

CosIdle ==
    /\ cosA = <<>>
    /\ cosB = <<>>
    /\ cosResult = <<>>
    /\ cosPc = "idle"

(***************************************************************************)
(* categorizeQuery (analyzer.ts 769-789)                                   *)
(***************************************************************************)
\* the table of lines 770-778, in its order
categories ==
    << [category |-> "Technical",
        keywords |-> {"api", "code", "programming", "development", "technical", "software"}],
       [category |-> "Marketing",
        keywords |-> {"marketing", "advertising", "promotion", "campaign", "brand"}],
       [category |-> "SEO",
        keywords |-> {"seo", "search", "ranking", "optimization", "keywords"}],
       [category |-> "Content",
        keywords |-> {"content", "blog", "writing", "article", "copywriting"}],
       [category |-> "Business",
        keywords |-> {"business", "strategy", "growth", "revenue", "profit"}],
       [category |-> "Design",
        keywords |-> {"design", "ui", "ux", "interface", "visual"}],
       [category |-> "Analytics",
        keywords |-> {"analytics", "data", "metrics", "tracking", "measurement"}] >>

\* the queries of the model
QueryPool ==
    <<"best SEO keyword ranking tool", "content marketing strategies", "pricing plans">>

\* the first queries of the list generateQueries falls back to (lines 614-620)
DefaultQueries ==
    <<"content marketing strategies", "SEO best practices", "digital marketing tips">>

\* lowerQuery.includes(keyword), for the queries of the model: the keywords
\* of the table that are substrings of the lower-cased query
KeywordsIncluded(query) ==
    CASE query = "best SEO keyword ranking tool" -> {"seo", "ranking"}
      [] query = "content marketing strategies" -> {"content", "marketing"}
      [] query = "SEO best practices" -> {"seo"}
      [] query = "digital marketing tips" -> {"marketing"}
      [] OTHER -> {}

categorizeQuery(query) ==
    LET hits == {k \in DOMAIN categories :
                    categories[k].keywords \cap KeywordsIncluded(query) # {}}
    IN  IF hits = {} THEN "General" ELSE categories[MinOf(hits)].category

(***************************************************************************)
(* analyzeContentSimilarity (analyzer.ts 665-764)                          *)
(***************************************************************************)
batchSize == 5

\* generateEmbedding, when the request succeeds: the vector of a text
QueryEmbedding(query) ==
    CASE query = "best SEO keyword ranking tool" -> <<3, 4>>
      [] query = "content marketing strategies" -> <<4, 3>>
      [] query = "SEO best practices" -> <<20, 21>>
      [] OTHER -> <<-3, -4>>

\* a reply of the embedding service with a vector of another length
OtherLengthEmbedding(query) == Append(QueryEmbedding(query), 0)

ChunkEmbeddingPool == << <<1, 0>>, <<3, 4>>, <<0, 0>> >>

\* chunk c (the first is chunk 1) of document doc (the target is document 1,
\* competitor n document n + 1) and its vector: the documents take their
\* chunks' vectors in turn from the pool, each starting one further
ChunkText(doc, c) == <<"chunk", doc, c>>

ChunkEmbedding(doc, c) ==
    ChunkEmbeddingPool[((doc + c - 2) % Len(ChunkEmbeddingPool)) + 1]

\* lines 676-689: the chunks whose embedding succeeded, with their 0-based index
ValidChunkEmbeddings(doc, chunkCount, failedChunks) ==
    LET kept == SelectSeq([c \in 1..chunkCount |-> c], LAMBDA c : c \notin failedChunks)
    IN  [k \in DOMAIN kept |->
            [chunk |-> ChunkText(doc, kept[k]),
             embedding |-> ChunkEmbedding(doc, kept[k]),
             index |-> kept[k] - 1]]

\* line 723 with > for >=
isMatchedStrict(similarity, threshold) == similarity > threshold

\* line 723
isMatched(similarity, threshold) == similarity >= threshold

\* lines 704-717: the best chunk of the first k valid chunks
RECURSIVE BestChunk(_, _, _)
BestChunk(queryEmbedding, valid, k) ==
    IF k = 0 THEN [bestSimilarity |-> 0, bestChunk |-> <<>>, bestChunkIndex |-> -1]
    ELSE LET before == BestChunk(queryEmbedding, valid, k - 1)
             similarity == cosineSimilarity(queryEmbedding, valid[k].embedding)
         IN  IF similarity > before.bestSimilarity
             THEN [bestSimilarity |-> similarity,
                   bestChunk |-> valid[k].chunk,
                   bestChunkIndex |-> valid[k].index]
             ELSE before

\* lines 726-729: chunkData?.index || idx, the similarity, the top three
allChunkSimilaritiesOf(queryEmbedding, valid) ==
    LET all == [k \in DOMAIN valid |->
                  [chunkIndex |-> IF valid[k].index # 0 THEN valid[k].index ELSE k - 1,
                   similarity |-> cosineSimilarity(queryEmbedding, valid[k].embedding)]]
    IN  Slice(SortDesc(all, [k \in DOMAIN all |-> all[k].similarity]), 3)

\* lines 731-741 with the category categorizeQuery gives unmatched queries
failedMatchCapital(query) ==
    [query |-> query, similarity |-> 0, category |-> "General", matched |-> FALSE,
     context |-> <<>>, bestChunkIndex |-> -1, allChunkSimilarities |-> <<>>]

\* lines 731-741: the record of a query whose processing threw
failedMatch(query) ==
    [query |-> query, similarity |-> 0, category |-> "general", matched |-> FALSE,
     context |-> <<>>, bestChunkIndex |-> -1, allChunkSimilarities |-> <<>>]

\* line 711 throws for some valid chunk
comparisonThrows(queryEmbedding, valid) ==
    \E k \in DOMAIN valid : cosineSimilarityThrows(queryEmbedding, valid[k].embedding)

\* lines 703-742: the record of a query whose embedding request returned
\* queryEmbedding; a vector of another length than a chunk's makes
\* cosineSimilarity throw into the catch of line 731
matchOfEmbedding(query, queryEmbedding, valid, threshold) ==
    LET best == BestChunk(queryEmbedding, valid, Len(valid))
    IN  IF comparisonThrows(queryEmbedding, valid)
        THEN failedMatch(query)
        ELSE [query |-> query,
              similarity |-> best.bestSimilarity,
              category |-> categorizeQuery(query),
              matched |-> isMatched(best.bestSimilarity, threshold),
              context |-> best.bestChunk,
              bestChunkIndex |-> best.bestChunkIndex,
              allChunkSimilarities |-> allChunkSimilaritiesOf(queryEmbedding, valid)]

\* the record of a query whose embedding has the length of the chunks'
embeddedMatch(query, valid, threshold) ==
    matchOfEmbedding(query, QueryEmbedding(query), valid, threshold)

\* line 755 without the sort
sortResultsNone(results) == results

\* line 755
sortResults(results) ==
    SortDesc(results, [k \in DOMAIN results |-> results[k].similarity])

\* the query lists of the model: n queries taken in turn from the pool,
\* starting anywhere in it, so that a list longer than the pool repeats queries
QueryInputs ==
    {[i \in 1..n |-> QueryPool[((first + i - 2) % Len(QueryPool)) + 1]] :
        n \in 0..MaxQueries, first \in DOMAIN QueryPool}

Thresholds == {0, 60, 70}

SimInit ==
    /\ simChunkCount \in 0..MaxChunks
    /\ simQueries \in QueryInputs
    /\ simThreshold \in Thresholds
    /\ validChunkEmbeddings = <<>>
    /\ simOffset = 0
    /\ simPending = {}
    /\ simBatchResults = <<>>
    /\ simResults = <<>>
    /\ simFailedQueries = {}
    /\ simOtherLengthQueries = {}
    /\ simPc = "chunks"

\* lines 672-690: every chunk's embedding is requested and all requests are
\* awaited; those of failedChunks fail
EmbedChunks ==
    /\ simPc = "chunks"
    /\ \E failedChunks \in SUBSET (1..simChunkCount) :
          validChunkEmbeddings' = ValidChunkEmbeddings(1, simChunkCount, failedChunks)
    /\ simPc' = "loop"
    /\ UNCHANGED <<simChunkCount, simQueries, simThreshold, simOffset, simPending,
                   simBatchResults, simResults, simFailedQueries,
                   simOtherLengthQueries>>
    /\ UNCHANGED notSimVars

\* lines 696-699: the loop test holds and the batch's queries are started
StartBatch ==
    /\ simPc = "loop"
    /\ simOffset < Len(simQueries)
    /\ simPending' = (simOffset + 1)..Min(simOffset + batchSize, Len(simQueries))
    /\ simBatchResults' = <<>>
    /\ simPc' = "await"
    /\ UNCHANGED <<simChunkCount, simQueries, simThreshold, validChunkEmbeddings,
                   simOffset, simResults, simFailedQueries,
                   simOtherLengthQueries>>
    /\ UNCHANGED notSimVars

\* the records of the batch that settled, with that of the query at position q
Settled(q, record) ==
    [k \in DOMAIN simBatchResults \cup {q} |->
        IF k = q THEN record ELSE simBatchResults[k]]

\* lines 701-730: the embedding of a pending query arrives
QueryEmbedded ==
    /\ simPc = "await"
    /\ \E q \in simPending :
          /\ simBatchResults' =
                Settled(q, embeddedMatch(simQueries[q], validChunkEmbeddings, simThreshold))
          /\ simPending' = simPending \ {q}
    /\ UNCHANGED <<simChunkCount, simQueries, simThreshold, validChunkEmbeddings,
                   simOffset, simResults, simFailedQueries, simPc,
                   simOtherLengthQueries>>
    /\ UNCHANGED notSimVars

\* lines 701-742: the embedding of a pending query arrives with another
\* length than the chunks' embeddings; with a valid chunk to compare it to,
\* cosineSimilarity throws and the catch of line 731 returns the record
QueryEmbeddedOtherLength ==
    /\ simPc = "await"
    /\ Cardinality(simOtherLengthQueries) < MaxOtherLength
    /\ \E q \in simPending :
          LET queryEmbedding == OtherLengthEmbedding(simQueries[q])
          IN  /\ simBatchResults' =
                    Settled(q, matchOfEmbedding(simQueries[q], queryEmbedding,
                                                validChunkEmbeddings, simThreshold))
              /\ simPending' = simPending \ {q}
              /\ simOtherLengthQueries' = simOtherLengthQueries \cup {q}
              /\ simFailedQueries' =
                    IF comparisonThrows(queryEmbedding, validChunkEmbeddings)
                    THEN simFailedQueries \cup {q} ELSE simFailedQueries
    /\ UNCHANGED <<simChunkCount, simQueries, simThreshold, validChunkEmbeddings,
                   simOffset, simResults, simPc>>
    /\ UNCHANGED notSimVars

\* lines 731-742: the embedding request of a pending query fails
QueryFailed ==
    /\ simPc = "await"
    /\ \E q \in simPending :
          /\ simBatchResults' = Settled(q, failedMatch(simQueries[q]))
          /\ simPending' = simPending \ {q}
          /\ simFailedQueries' = simFailedQueries \cup {q}
    /\ UNCHANGED <<simChunkCount, simQueries, simThreshold, validChunkEmbeddings,
                   simOffset, simResults, simPc,
                   simOtherLengthQueries>>
    /\ UNCHANGED notSimVars

\* lines 745-752: Promise.all resolves with the records in the order of the
\* batch, they are pushed, and (after the delay, if a batch is left) the loop
\* goes on
BatchDone ==
    /\ simPc = "await"
    /\ simPending = {}
    /\ simResults' = simResults \o
          [k \in 1..Cardinality(DOMAIN simBatchResults) |-> simBatchResults[simOffset + k]]
    /\ simBatchResults' = <<>>
    /\ simOffset' = simOffset + batchSize
    /\ simPc' = "loop"
    /\ UNCHANGED <<simChunkCount, simQueries, simThreshold, validChunkEmbeddings,
                   simPending, simFailedQueries,
                   simOtherLengthQueries>>
    /\ UNCHANGED notSimVars

\* lines 754-755: the loop is over and the sorted results are returned
ReturnResults ==
    /\ simPc = "loop"
    /\ simOffset >= Len(simQueries)
    /\ simResults' = sortResults(simResults)
    /\ simPc' = "done"
    /\ UNCHANGED <<simChunkCount, simQueries, simThreshold, validChunkEmbeddings,
                   simOffset, simPending, simBatchResults, simFailedQueries,
                   simOtherLengthQueries>>
    /\ UNCHANGED notSimVars

SimNext ==
    \/ EmbedChunks
    \/ StartBatch
    \/ QueryEmbedded
    \/ QueryEmbeddedOtherLength
    \/ QueryFailed
    \/ BatchDone
    \/ ReturnResults

SimIdle ==
    /\ simChunkCount = 0
    /\ simQueries = <<>>
    /\ simThreshold = 0
    /\ validChunkEmbeddings = <<>>
    /\ simOffset = 0
    /\ simPending = {}
    /\ simBatchResults = <<>>
    /\ simResults = <<>>
    /\ simFailedQueries = {}
    /\ simOtherLengthQueries = {}
    /\ simPc = "idle"

(***************************************************************************)
(* performContentAnalysis (analyzer.ts 940-1060)                           *)
(*                                                                         *)
(* The primary topic (lines 948-980, 990) is not modelled: its detection   *)
(* falls back instead of throwing, and it is read only for the             *)
(* topicRelevance of a gap.  The recommendations of line 1038 are strings  *)
(* composed from the gaps and scores and are left out as well.             *)
(***************************************************************************)
\* the default of the threshold parameter (0.7), in hundredths
defaultThreshold == 70

\* line 984: queries are generated when fewer than this many were given
minCustomQueries == 10

\* analyzeContentSimilarity as a whole: the records of the queries in the
\* order of the queries (Promise.all keeps it), sorted by line 755
analyzeContentSimilarity(doc, chunkCount, failedChunks, queries, failedQueries, threshold) ==
    LET valid == ValidChunkEmbeddings(doc, chunkCount, failedChunks)
    IN  sortResults([q \in DOMAIN queries |->
            IF q \in failedQueries THEN failedMatch(queries[q])
            ELSE embeddedMatch(queries[q], valid, threshold)])

\* lines 995-997 and 1006-1008: Math.round(sum / length), NaN (here <<>>) for
\* an empty list and else the one-element sequence of the score
overallScoreOf(scores) ==
    IF scores = <<>> THEN <<>>
    ELSE <<RoundedMean(SumSeq([k \in DOMAIN scores |-> scores[k].score]), Len(scores))>>

\* generateRadarData (823-847)
generateRadarData(tScores, cResults) ==
    LET cats == mapKeys(tScores)
    IN  [k \in DOMAIN cats |->
            [category |-> cats[k],
             targetScore |-> ScoreOrZero(tScores, cats[k]),
             competitorAvg |->
                IF Len(cResults) > 0
                THEN RoundedMean(competitorAvg(cats[k], cResults).num, Len(cResults))
                ELSE 0,
             maxScore |-> 100]]

\* lines 1010-1017: the result pushed for competitor n
competitorResultOf(n, matches) ==
    LET scores == calculateCategoryScores(matches)
    IN  [url |-> n,
         overallScore |-> overallScoreOf(scores),
         categoryScores |-> scores,
         topQueries |-> Slice(SelectSeq(matches, LAMBDA m : m.matched), 10)]

CustomQueryInputs == {SubSeq(QueryPool, 1, n) : n \in 0..MaxCustomQueries}

\* the replies of generateQueries that can be spread into allQueries
GeneratedQueryReplies == {SubSeq(DefaultQueries, 1, n) : n \in 0..MaxGeneratedQueries}

AnalysisInit ==
    /\ customQueries \in CustomQueryInputs
    /\ targetChunkCount \in 0..MaxAnalysisChunks
    /\ competitorChunkCounts \in
          UNION {[1..n -> 0..MaxAnalysisChunks] : n \in 0..MaxAnalysisCompetitors}
    /\ allQueries = <<>>
    /\ targetMatches = <<>>
    /\ targetCategoryScores = <<>>
    /\ targetEmbeddedChunks = 0
    /\ analysisCompetitorResults = <<>>
    /\ analysisResult = <<>>
    /\ analysisPc = "queries"

\* lines 983-987: allQueries is the custom queries, followed by the reply of
\* generateQueries when fewer than 10 were given
GenerateQueries ==
    /\ analysisPc = "queries"
    /\ \E reply \in IF Len(customQueries) < minCustomQueries
                     THEN GeneratedQueryReplies ELSE {<<>>} :
          allQueries' = customQueries \o reply
    /\ analysisPc' = "target"
    /\ UNCHANGED <<customQueries, targetChunkCount, competitorChunkCounts,
                   targetMatches, targetCategoryScores, targetEmbeddedChunks,
                   analysisCompetitorResults, analysisResult>>
    /\ UNCHANGED notAnalysisVars

\* lines 603 and 986: the reply of the model parses as JSON that is not
\* iterable (a number, an object, null), the spread throws, and line 1052
\* turns it into an AnalysisError
GeneratedQueriesNotIterable ==
    /\ analysisPc = "queries"
    /\ Len(customQueries) < minCustomQueries
    /\ analysisPc' = "raised"
    /\ UNCHANGED <<customQueries, targetChunkCount, competitorChunkCounts,
                   allQueries, targetMatches, targetCategoryScores,
                   targetEmbeddedChunks, analysisCompetitorResults, analysisResult>>
    /\ UNCHANGED notAnalysisVars

\* lines 993-997: the target is analysed; the embedding requests of
\* failedChunks and failedQueries fail
AnalyzeTarget ==
    /\ analysisPc = "target"
    /\ \E failedChunks \in SUBSET (1..targetChunkCount) :
       \E failedQueries \in SUBSET DOMAIN allQueries :
          /\ targetMatches' =
                analyzeContentSimilarity(1, targetChunkCount, failedChunks,
                                         allQueries, failedQueries, defaultThreshold)
          /\ targetEmbeddedChunks' = targetChunkCount - Cardinality(failedChunks)
    /\ targetCategoryScores' = calculateCategoryScores(targetMatches')
    /\ analysisPc' = "competitors"
    /\ UNCHANGED <<customQueries, targetChunkCount, competitorChunkCounts,
                   allQueries, analysisCompetitorResults, analysisResult>>
    /\ UNCHANGED notAnalysisVars

\* lines 1002-1017: the next competitor is analysed and its result pushed
AnalyzeCompetitor ==
    /\ analysisPc = "competitors"
    /\ Len(analysisCompetitorResults) < Len(competitorChunkCounts)
    /\ LET n == Len(analysisCompetitorResults) + 1
       IN  \E failedChunks \in SUBSET (1..competitorChunkCounts[n]) :
           \E failedQueries \in SUBSET DOMAIN allQueries :
              analysisCompetitorResults' = Append(analysisCompetitorResults,
                  competitorResultOf(n,
                      analyzeContentSimilarity(n + 1, competitorChunkCounts[n],
                          failedChunks, allQueries, failedQueries, defaultThreshold)))
    /\ UNCHANGED <<customQueries, targetChunkCount, competitorChunkCounts,
                   allQueries, targetMatches, targetCategoryScores,
                   targetEmbeddedChunks, analysisResult, analysisPc>>
    /\ UNCHANGED notAnalysisVars

\* lines 1024-1051: the insights are derived and the AnalysisResult returned
ReturnAnalysis ==
    /\ analysisPc = "competitors"
    /\ Len(analysisCompetitorResults) = Len(competitorChunkCounts)
    /\ analysisResult' =
          <<[targetScore |-> overallScoreOf(targetCategoryScores),
             competitorResults |-> analysisCompetitorResults,
             radarData |-> generateRadarData(targetCategoryScores,
                                             analysisCompetitorResults),
             coverageGaps |-> identifyCoverageGaps(targetCategoryScores,
                                 analysisCompetitorResults, targetMatches),
             queries |-> allQueries]>>
    /\ analysisPc' = "returned"
    /\ UNCHANGED <<customQueries, targetChunkCount, competitorChunkCounts,
                   allQueries, targetMatches, targetCategoryScores,
                   targetEmbeddedChunks, analysisCompetitorResults>>
    /\ UNCHANGED notAnalysisVars

AnalysisNext ==
    \/ GenerateQueries
    \/ GeneratedQueriesNotIterable
    \/ AnalyzeTarget
    \/ AnalyzeCompetitor
    \/ ReturnAnalysis

AnalysisIdle ==
    /\ customQueries = <<>>
    /\ targetChunkCount = 0
    /\ competitorChunkCounts = <<>>
    /\ allQueries = <<>>
    /\ targetMatches = <<>>
    /\ targetCategoryScores = <<>>
    /\ targetEmbeddedChunks = 0
    /\ analysisCompetitorResults = <<>>
    /\ analysisResult = <<>>
    /\ analysisPc = "idle"

(***************************************************************************)
(* scrapeMultipleUrls (scraper.ts 195-229)                                 *)
(***************************************************************************)
\* the default of the concurrency parameter
defaultConcurrency == 3

UrlPool == {"https://a.example", "https://b.example"}

\* scrapeContent(url), when it succeeds: the content carries its url
scrapeContent(url) == [url |-> url, content |-> <<"content of", url>>]

\* line 208 with the index in the batch for the index in urls
resultIndexInBatch(offset, q) == q - offset

\* line 208: i + batchIndex, which is the position q of the url in urls
resultIndex(offset, q) == offset + (q - offset)

\* a list with the value at position k (from 1) replaced
WriteAt(list, k, value) == [j \in DOMAIN list |-> IF j = k THEN value ELSE list[j]]

ScrapeInit ==
    /\ scrapeUrls \in UNION {[1..n -> UrlPool] : n \in 0..MaxUrls}
    /\ scrapeConcurrency \in 1..defaultConcurrency
    /\ scrapeResults = <<>>
    /\ scrapeErrors = <<>>
    /\ scrapeOffset = 0
    /\ scrapePending = {}
    /\ scrapeFailed = {}
    /\ scrapePc = "call"

\* lines 199-200: results is an array of nulls (here <<>>) as long as urls
AllocateResults ==
    /\ scrapePc = "call"
    /\ scrapeResults' = [k \in DOMAIN scrapeUrls |-> <<>>]
    /\ scrapePc' = "loop"
    /\ UNCHANGED <<scrapeUrls, scrapeConcurrency, scrapeErrors, scrapeOffset,
                   scrapePending, scrapeFailed>>
    /\ UNCHANGED notScrapeVars

\* a loop that starts the scrapes of every url that is left at once
StartScrapeBatchUnbatched ==
    /\ scrapePc = "loop"
    /\ scrapeOffset < Len(scrapeUrls)
    /\ scrapePending' = (scrapeOffset + 1)..Len(scrapeUrls)
    /\ scrapePc' = "await"
    /\ UNCHANGED <<scrapeUrls, scrapeConcurrency, scrapeResults, scrapeErrors,
                   scrapeOffset, scrapeFailed>>
    /\ UNCHANGED notScrapeVars

\* lines 203-205: the loop test holds and the scrapes of the batch are started
StartScrapeBatch ==
    /\ scrapePc = "loop"
    /\ scrapeOffset < Len(scrapeUrls)
    /\ scrapePending' =
          (scrapeOffset + 1)..Min(scrapeOffset + scrapeConcurrency, Len(scrapeUrls))
    /\ scrapePc' = "await"
    /\ UNCHANGED <<scrapeUrls, scrapeConcurrency, scrapeResults, scrapeErrors,
                   scrapeOffset, scrapeFailed>>
    /\ UNCHANGED notScrapeVars

\* lines 207-208: a pending scrape of the batch completes and its content is
\* written to the position of its url
ScrapeSucceeded ==
    /\ scrapePc = "await"
    /\ \E q \in scrapePending :
          /\ scrapeResults' = WriteAt(scrapeResults, resultIndex(scrapeOffset, q),
                                      <<scrapeContent(scrapeUrls[q])>>)
          /\ scrapePending' = scrapePending \ {q}
    /\ UNCHANGED <<scrapeUrls, scrapeConcurrency, scrapeErrors, scrapeOffset,
                   scrapeFailed, scrapePc>>
    /\ UNCHANGED notScrapeVars

\* lines 209-213: a pending scrape of the batch throws and its message is
\* pushed to errors
ScrapeThrew ==
    /\ scrapePc = "await"
    /\ \E q \in scrapePending :
          /\ scrapeErrors' = Append(scrapeErrors, scrapeUrls[q])
          /\ scrapePending' = scrapePending \ {q}
          /\ scrapeFailed' = scrapeFailed \cup {q}
    /\ UNCHANGED <<scrapeUrls, scrapeConcurrency, scrapeResults, scrapeOffset,
                   scrapePc>>
    /\ UNCHANGED notScrapeVars

\* lines 216-221: every scrape of the batch has settled and (after the delay,
\* if a batch is left) the loop goes on
ScrapeBatchDone ==
    /\ scrapePc = "await"
    /\ scrapePending = {}
    /\ scrapeOffset' = scrapeOffset + scrapeConcurrency
    /\ scrapePc' = "loop"
    /\ UNCHANGED <<scrapeUrls, scrapeConcurrency, scrapeResults, scrapeErrors,
                   scrapePending, scrapeFailed>>
    /\ UNCHANGED notScrapeVars

\* lines 224-228: the loop is over and results is returned
ReturnScraped ==
    /\ scrapePc = "loop"
    /\ scrapeOffset >= Len(scrapeUrls)
    /\ scrapePc' = "done"
    /\ UNCHANGED <<scrapeUrls, scrapeConcurrency, scrapeResults, scrapeErrors,
                   scrapeOffset, scrapePending, scrapeFailed>>
    /\ UNCHANGED notScrapeVars

ScrapeNext ==
    \/ AllocateResults
    \/ StartScrapeBatch
    \/ ScrapeSucceeded
    \/ ScrapeThrew
    \/ ScrapeBatchDone
    \/ ReturnScraped

ScrapeIdle ==
    /\ scrapeUrls = <<>>
    /\ scrapeConcurrency = defaultConcurrency
    /\ scrapeResults = <<>>
    /\ scrapeErrors = <<>>
    /\ scrapeOffset = 0
    /\ scrapePending = {}
    /\ scrapeFailed = {}
    /\ scrapePc = "idle"

(***************************************************************************)
(* chunkContent (analyzer.ts 627-660)                                      *)
(***************************************************************************)
\* the default of the maxChunkSize parameter
defaultMaxChunkSize == 1000

\* line 659: a chunk is kept when it is longer than this
minChunkLength == 50

\* \s and [.!?] for the characters of the model
Whitespace == {" ", "\n"}

SentenceEnd == {".", "!", "?"}

\* String.prototype.trim
trim(str) ==
    LET inked == {i \in DOMAIN str : str[i] \notin Whitespace}
    IN  IF inked = {} THEN <<>>
        ELSE SubSeq(str, MinOf(inked), CHOOSE i \in inked : \A j \in inked : j <= i)

\* the elements of a set of numbers, ascending
Ascending(set) ==
    [k \in 1..Cardinality(set) |->
        CHOOSE x \in set : Cardinality({y \in set : y < x}) = k - 1]

\* String.prototype.split, without the empty pieces (the callers filter them
\* out): the maximal pieces of str free of the positions of cut, in order
Pieces(str, cut) ==
    LET starts == {i \in DOMAIN str \ cut : i = 1 \/ i - 1 \in cut}
        first == Ascending(starts)
    IN  [k \in DOMAIN first |->
            SubSeq(str, first[k],
                   CHOOSE j \in first[k]..Len(str) :
                       /\ j = Len(str) \/ j + 1 \in cut
                       /\ \A i \in first[k]..j : i \notin cut)]

\* the positions of str matched by /\n\s*\n/: in a run of whitespace with two
\* newlines or more, those from its first newline to its last
ParagraphBreaks(str) ==
    LET white == {i \in DOMAIN str : str[i] \in Whitespace}
        SameRun(i, j) == \A k \in Min(i, j)..Max(i, j) : k \in white
    IN  {i \in white :
            /\ \E j \in 1..i : str[j] = "\n" /\ SameRun(j, i)
            /\ \E j \in i..Len(str) : str[j] = "\n" /\ SameRun(i, j)
            /\ \E j, k \in DOMAIN str :
                  j < k /\ str[j] = "\n" /\ str[k] = "\n" /\ SameRun(j, i) /\ SameRun(i, k)}

\* line 631: the paragraphs that are not blank
splitParagraphs(str) ==
    SelectSeq(Pieces(str, ParagraphBreaks(str)), LAMBDA para : Len(trim(para)) > 0)

\* line 638: the sentences that are not blank
splitSentences(paragraph) ==
    SelectSeq(Pieces(paragraph, {i \in DOMAIN paragraph : paragraph[i] \in SentenceEnd}),
              LAMBDA sentence : Len(trim(sentence)) > 0)

\* lines 641-650: the chunks pushed and currentChunk after the first k
\* sentences
RECURSIVE packSentences(_, _, _)
packSentences(sentences, k, maxSize) ==
    IF k = 0 THEN [pushed |-> <<>>, currentChunk |-> <<>>]
    ELSE LET before == packSentences(sentences, k - 1, maxSize)
             sentence == sentences[k]
         IN  IF Len(before.currentChunk \o sentence) <= maxSize
             THEN [pushed |-> before.pushed,
                   currentChunk |->
                      before.currentChunk
                        \o (IF before.currentChunk # <<>> THEN <<".", " ">> ELSE <<>>)
                        \o sentence]
             ELSE [pushed |->
                      IF before.currentChunk # <<>>
                      THEN Append(before.pushed, trim(before.currentChunk))
                      ELSE before.pushed,
                   currentChunk |-> sentence]

\* lines 637-655: the chunks of a paragraph longer than maxSize
chunksOfLongParagraph(paragraph, maxSize) ==
    LET sentences == splitSentences(paragraph)
        packed == packSentences(sentences, Len(sentences), maxSize)
    IN  IF packed.currentChunk # <<>>
        THEN Append(packed.pushed, trim(packed.currentChunk))
        ELSE packed.pushed

\* line 659 with >= for >
keepsChunkFrom50(chunk) == Len(chunk) >= minChunkLength

\* line 659
keepsChunk(chunk) == Len(chunk) > minChunkLength

\* the strings of the model: n times the character c, the strings of a list
\* one after the other with sep between them
Repeat(c, n) == [i \in 1..n |-> c]

RECURSIVE Join(_, _)
Join(strs, sep) ==
    IF strs = <<>> THEN <<>>
    ELSE IF Len(strs) = 1 THEN strs[1]
    ELSE strs[1] \o sep \o Join(Tail(strs), sep)

\* sentences of 30, 50 and 71 characters with their end
SentenceInputs ==
    {Repeat("a", n) \o <<".">> : n \in {29, 49, 70}} \cup {Repeat("b", 29) \o <<"!">>}

\* paragraphs of up to maxSentences sentences
ParagraphInputs(maxSentences) ==
    {Join(sentences, <<" ">>) :
        sentences \in UNION {[1..n -> SentenceInputs] : n \in 1..maxSentences}}

\* up to maxParagraphs paragraphs with a blank line, blanks around it,
\* between them
ContentInputs(maxParagraphs) ==
    {Join(paras, <<" ", "\n", " ", "\n", " ">>) :
        paras \in UNION {[1..n -> ParagraphInputs(MaxSentences)] : n \in 0..maxParagraphs}}

ChunkSizes == {60, defaultMaxChunkSize}

ChunkInit ==
    /\ content \in ContentInputs(MaxParagraphs)
    /\ maxChunkSize \in ChunkSizes
    /\ paragraphs = <<>>
    /\ paragraphsDone = 0
    /\ chunks = <<>>
    /\ chunksReturned = <<>>
    /\ chunkPc = "split"

\* lines 628-631
SplitParagraphs ==
    /\ chunkPc = "split"
    /\ paragraphs' = splitParagraphs(content)
    /\ chunkPc' = "paragraphs"
    /\ UNCHANGED <<content, maxChunkSize, paragraphsDone, chunks, chunksReturned>>
    /\ UNCHANGED notChunkVars

\* lines 634-635: the next paragraph is no longer than maxChunkSize
PushParagraph ==
    /\ chunkPc = "paragraphs"
    /\ paragraphsDone < Len(paragraphs)
    /\ Len(paragraphs[paragraphsDone + 1]) <= maxChunkSize
    /\ chunks' = Append(chunks, trim(paragraphs[paragraphsDone + 1]))
    /\ paragraphsDone' = paragraphsDone + 1
    /\ UNCHANGED <<content, maxChunkSize, paragraphs, chunksReturned, chunkPc>>
    /\ UNCHANGED notChunkVars

\* lines 636-655: the next paragraph is longer and its sentences are packed
PackParagraph ==
    /\ chunkPc = "paragraphs"
    /\ paragraphsDone < Len(paragraphs)
    /\ Len(paragraphs[paragraphsDone + 1]) > maxChunkSize
    /\ chunks' = chunks \o chunksOfLongParagraph(paragraphs[paragraphsDone + 1],
                                                 maxChunkSize)
    /\ paragraphsDone' = paragraphsDone + 1
    /\ UNCHANGED <<content, maxChunkSize, paragraphs, chunksReturned, chunkPc>>
    /\ UNCHANGED notChunkVars

\* lines 658-659
FilterChunks ==
    /\ chunkPc = "paragraphs"
    /\ paragraphsDone = Len(paragraphs)
    /\ chunksReturned' = SelectSeq(chunks, keepsChunk)
    /\ chunkPc' = "done"
    /\ UNCHANGED <<content, maxChunkSize, paragraphs, paragraphsDone, chunks>>
    /\ UNCHANGED notChunkVars

ChunkNext ==
    \/ SplitParagraphs
    \/ PushParagraph
    \/ PackParagraph
    \/ FilterChunks

ChunkIdle ==
    /\ content = <<>>
    /\ maxChunkSize = defaultMaxChunkSize
    /\ paragraphs = <<>>
    /\ paragraphsDone = 0
    /\ chunks = <<>>
    /\ chunksReturned = <<>>
    /\ chunkPc = "idle"

(***************************************************************************)
(* categorizeQuery, step by step and on the characters of the query        *)
(***************************************************************************)
\* line 782 with the entries of the table taken from the last
entryFromLast(tried) == Len(categories) - tried

\* line 782: Object.entries gives the entries in the order of the table; the
\* entry tried after the first tried ones
nextEntry(tried) == tried + 1

\* the characters of the keywords of the table
KeywordText(keyword) ==
    CASE keyword = "api" -> <<"a", "p", "i">>
      [] keyword = "code" -> <<"c", "o", "d", "e">>
      [] keyword = "programming" -> <<"p", "r", "o", "g", "r", "a", "m", "m", "i", "n", "g">>
      [] keyword = "development" -> <<"d", "e", "v", "e", "l", "o", "p", "m", "e", "n", "t">>
      [] keyword = "technical" -> <<"t", "e", "c", "h", "n", "i", "c", "a", "l">>
      [] keyword = "software" -> <<"s", "o", "f", "t", "w", "a", "r", "e">>
      [] keyword = "marketing" -> <<"m", "a", "r", "k", "e", "t", "i", "n", "g">>
      [] keyword = "advertising" -> <<"a", "d", "v", "e", "r", "t", "i", "s", "i", "n", "g">>
      [] keyword = "promotion" -> <<"p", "r", "o", "m", "o", "t", "i", "o", "n">>
      [] keyword = "campaign" -> <<"c", "a", "m", "p", "a", "i", "g", "n">>
      [] keyword = "brand" -> <<"b", "r", "a", "n", "d">>
      [] keyword = "seo" -> <<"s", "e", "o">>
      [] keyword = "search" -> <<"s", "e", "a", "r", "c", "h">>
      [] keyword = "ranking" -> <<"r", "a", "n", "k", "i", "n", "g">>
      [] keyword = "optimization" -> <<"o", "p", "t", "i", "m", "i", "z", "a", "t", "i", "o", "n">>
      [] keyword = "keywords" -> <<"k", "e", "y", "w", "o", "r", "d", "s">>
      [] keyword = "content" -> <<"c", "o", "n", "t", "e", "n", "t">>
      [] keyword = "blog" -> <<"b", "l", "o", "g">>
      [] keyword = "writing" -> <<"w", "r", "i", "t", "i", "n", "g">>
      [] keyword = "article" -> <<"a", "r", "t", "i", "c", "l", "e">>
      [] keyword = "copywriting" -> <<"c", "o", "p", "y", "w", "r", "i", "t", "i", "n", "g">>
      [] keyword = "business" -> <<"b", "u", "s", "i", "n", "e", "s", "s">>
      [] keyword = "strategy" -> <<"s", "t", "r", "a", "t", "e", "g", "y">>
      [] keyword = "growth" -> <<"g", "r", "o", "w", "t", "h">>
      [] keyword = "revenue" -> <<"r", "e", "v", "e", "n", "u", "e">>
      [] keyword = "profit" -> <<"p", "r", "o", "f", "i", "t">>
      [] keyword = "design" -> <<"d", "e", "s", "i", "g", "n">>
      [] keyword = "ui" -> <<"u", "i">>
      [] keyword = "ux" -> <<"u", "x">>
      [] keyword = "interface" -> <<"i", "n", "t", "e", "r", "f", "a", "c", "e">>
      [] keyword = "visual" -> <<"v", "i", "s", "u", "a", "l">>
      [] keyword = "analytics" -> <<"a", "n", "a", "l", "y", "t", "i", "c", "s">>
      [] keyword = "data" -> <<"d", "a", "t", "a">>
      [] keyword = "metrics" -> <<"m", "e", "t", "r", "i", "c", "s">>
      [] keyword = "tracking" -> <<"t", "r", "a", "c", "k", "i", "n", "g">>
      [] keyword = "measurement" -> <<"m", "e", "a", "s", "u", "r", "e", "m", "e", "n", "t">>

\* the characters of the queries the similarity analysis is given
QueryText(query) ==
    CASE query = "best SEO keyword ranking tool" ->
            <<"b", "e", "s", "t", " ", "S", "E", "O", " ", "k", "e", "y",
              "w", "o", "r", "d", " ", "r", "a", "n", "k", "i", "n", "g",
              " ", "t", "o", "o", "l">>
      [] query = "content marketing strategies" ->
            <<"c", "o", "n", "t", "e", "n", "t", " ", "m", "a", "r", "k",
              "e", "t", "i", "n", "g", " ", "s", "t", "r", "a", "t", "e",
              "g", "i", "e", "s">>
      [] query = "pricing plans" ->
            <<"p", "r", "i", "c", "i", "n", "g", " ", "p", "l", "a", "n",
              "s">>
      [] query = "SEO best practices" ->
            <<"S", "E", "O", " ", "b", "e", "s", "t", " ", "p", "r", "a",
              "c", "t", "i", "c", "e", "s">>
      [] query = "digital marketing tips" ->
            <<"d", "i", "g", "i", "t", "a", "l", " ", "m", "a", "r", "k",
              "e", "t", "i", "n", "g", " ", "t", "i", "p", "s">>

UpperToLower ==
    "A" :> "a" @@ "B" :> "b" @@ "C" :> "c" @@ "D" :> "d" @@ "E" :> "e" @@
    "F" :> "f" @@ "G" :> "g" @@ "H" :> "h" @@ "I" :> "i" @@ "J" :> "j" @@
    "K" :> "k" @@ "L" :> "l" @@ "M" :> "m" @@ "N" :> "n" @@ "O" :> "o" @@
    "P" :> "p" @@ "Q" :> "q" @@ "R" :> "r" @@ "S" :> "s" @@ "T" :> "t" @@
    "U" :> "u" @@ "V" :> "v" @@ "W" :> "w" @@ "X" :> "x" @@ "Y" :> "y" @@
    "Z" :> "z"

\* line 780: String.prototype.toLowerCase
toLowerCase(str) ==
    [i \in DOMAIN str |->
        IF str[i] \in DOMAIN UpperToLower THEN UpperToLower[str[i]] ELSE str[i]]

\* line 783: lowerQuery.includes(keyword)
includes(lowerQuery, keyword) == IsSubstring(KeywordText(keyword), lowerQuery)

\* line 783: keywords.some(...) for the k-th category of the table
someKeywordIncluded(k, lowerQuery) ==
    \E keyword \in categories[k].keywords : includes(lowerQuery, keyword)

\* the queries handed to categorizeQuery: those of the similarity analysis,
\* and up to MaxWords words with a blank between them
WordInputs ==
    {<<"A", "P", "I">>,
     <<"B", "r", "a", "n", "d">>,
     <<"S", "E", "O">>,
     <<"g", "u", "i", "d", "e">>,
     <<"g", "r", "o", "w", "t", "h">>,
     <<"d", "a", "t", "a">>}

CategorizeInputs ==
    {QueryText(query) : query \in Range(QueryPool) \cup Range(DefaultQueries)}
      \cup {Join(ws, <<" ">>) : ws \in UNION {[1..n -> WordInputs] : n \in 0..MaxWords}}

CatInit ==
    /\ catQuery \in CategorizeInputs
    /\ catTried = 0
    /\ catResult = <<>>
    /\ catPc = "loop"

\* lines 782-783: no keyword of the next category is in the lower-cased query
NextCategory ==
    /\ catPc = "loop"
    /\ catTried < Len(categories)
    /\ ~someKeywordIncluded(nextEntry(catTried), toLowerCase(catQuery))
    /\ catTried' = catTried + 1
    /\ UNCHANGED <<catQuery, catResult, catPc>>
    /\ UNCHANGED notCatVars

\* lines 783-785: a keyword of the next category is, and the category is
\* returned
ReturnCategory ==
    /\ catPc = "loop"
    /\ catTried < Len(categories)
    /\ someKeywordIncluded(nextEntry(catTried), toLowerCase(catQuery))
    /\ catResult' = <<categories[nextEntry(catTried)].category>>
    /\ catPc' = "returned"
    /\ UNCHANGED <<catQuery, catTried>>
    /\ UNCHANGED notCatVars

\* line 788: every category was tried
ReturnGeneral ==
    /\ catPc = "loop"
    /\ catTried = Len(categories)
    /\ catResult' = <<"General">>
    /\ catPc' = "returned"
    /\ UNCHANGED <<catQuery, catTried>>
    /\ UNCHANGED notCatVars

CatNext ==
    \/ NextCategory
    \/ ReturnCategory
    \/ ReturnGeneral

CatIdle ==
    /\ catQuery = <<>>
    /\ catTried = 0
    /\ catResult = <<>>
    /\ catPc = "idle"

(***************************************************************************)
(* More arithmetic of doubles                                              *)
(***************************************************************************)
\* NaN, as its exponent beyond those of the numbers
FloatNaN == [neg |-> FALSE, m |-> <<1>>, e |-> 1024]

\* the double written n/d in decimal, for whole n >= 0 and d a power of ten:
\* the double nearest to the quotient
Decimal(n, d) == FloatDividedBy(FloatOfInt(n), FloatOfInt(d))

\* x + y for x, y >= 0 or NaN
FloatPlus(x, y) ==
    LET low == Min(x.e, y.e)
    IN  IF x = FloatNaN \/ y = FloatNaN THEN FloatNaN
        ELSE IF x.m = <<>> THEN y
        ELSE IF y.m = <<>> THEN x
        ELSE RoundToDouble(FALSE,
                           BigAdd(BigShiftLeft(x.m, x.e - low), BigShiftLeft(y.m, y.e - low)),
                           low, FALSE)

\* x > y, false when one of them is NaN
FloatGreater(x, y) == x # FloatNaN /\ y # FloatNaN /\ FloatLess(y, x)

\* Math.min(x, y)
MathMin(x, y) ==
    IF x = FloatNaN \/ y = FloatNaN THEN FloatNaN ELSE IF FloatLess(y, x) THEN y ELSE x

\* Math.max(x, y)
MathMax(x, y) ==
    IF x = FloatNaN \/ y = FloatNaN THEN FloatNaN ELSE IF FloatLess(x, y) THEN y ELSE x

\* a double by its mantissa of 53 bits, in digits of DigitBits bits from the
\* lowest, and its exponent
Double(mantissa, exponent) == [neg |-> FALSE, m |-> mantissa, e |-> exponent]

\* the doubles of the decimal numbers of the code, by their hundredths
Hundredths ==
    2 :> Double(<<5243, 3932, 27525, 163>>, -58)
    @@ 5 :> Double(<<6554, 13107, 26214, 204>>, -57)
    @@ 7 :> Double(<<20972, 15728, 11796, 143>>, -56)
    @@ 10 :> Double(<<6554, 13107, 26214, 204>>, -56)
    @@ 12 :> Double(<<7864, 22282, 24903, 245>>, -56)
    @@ 15 :> Double(<<13107, 26214, 19660, 153>>, -55)
    @@ 20 :> Double(<<6554, 13107, 26214, 204>>, -55)
    @@ 25 :> Double(<<0, 0, 0, 128>>, -54)
    @@ 30 :> Double(<<13107, 26214, 19660, 153>>, -54)
    @@ 40 :> Double(<<6554, 13107, 26214, 204>>, -54)
    @@ 70 :> Double(<<26214, 19660, 6553, 179>>, -53)
    @@ 80 :> Double(<<6554, 13107, 26214, 204>>, -53)
    @@ 90 :> Double(<<19661, 6553, 13107, 230>>, -53)

(***************************************************************************)
(* TopicDetector.extractPrimaryTopic (topic-detector.ts): strings are the  *)
(* sequences of their characters, numbers are doubles                      *)
(***************************************************************************)
\* the characters of a string of the code or of the inputs
Text(str) ==
    CASE str = "http://" ->
         <<"h", "t", "t", "p", ":", "/", "/">>
      [] str = "https://" ->
         <<"h", "t", "t", "p", "s", ":", "/", "/">>
      [] str = "www." ->
         <<"w", "w", "w", ".">>
      [] str = "agency" ->
         <<"a", "g", "e", "n", "c", "y">>
      [] str = "company" ->
         <<"c", "o", "m", "p", "a", "n", "y">>
      [] str = "group" ->
         <<"g", "r", "o", "u", "p">>
      [] str = "firm" ->
         <<"f", "i", "r", "m">>
      [] str = "influence" ->
         <<"i", "n", "f", "l", "u", "e", "n", "c", "e">>
      [] str = "consulting" ->
         <<"c", "o", "n", "s", "u", "l", "t", "i", "n", "g">>
      [] str = "solutions" ->
         <<"s", "o", "l", "u", "t", "i", "o", "n", "s">>
      [] str = "partners" ->
         <<"p", "a", "r", "t", "n", "e", "r", "s">>
      [] str = "media" ->
         <<"m", "e", "d", "i", "a">>
      [] str = "marketing" ->
         <<"m", "a", "r", "k", "e", "t", "i", "n", "g">>
      [] str = "seo" ->
         <<"s", "e", "o">>
      [] str = "Dr." ->
         <<"D", "r", ".">>
      [] str = "Mr." ->
         <<"M", "r", ".">>
      [] str = "Mrs." ->
         <<"M", "r", "s", ".">>
      [] str = "Ms." ->
         <<"M", "s", ".">>
      [] str = "Prof." ->
         <<"P", "r", "o", "f", ".">>
      [] str = "university" ->
         <<"u", "n", "i", "v", "e", "r", "s", "i", "t", "y">>
      [] str = "college" ->
         <<"c", "o", "l", "l", "e", "g", "e">>
      [] str = "school" ->
         <<"s", "c", "h", "o", "o", "l">>
      [] str = "institute" ->
         <<"i", "n", "s", "t", "i", "t", "u", "t", "e">>
      [] str = "course" ->
         <<"c", "o", "u", "r", "s", "e">>
      [] str = "program" ->
         <<"p", "r", "o", "g", "r", "a", "m">>
      [] str = "training" ->
         <<"t", "r", "a", "i", "n", "i", "n", "g">>
      [] str = "workshop" ->
         <<"w", "o", "r", "k", "s", "h", "o", "p">>
      [] str = "software" ->
         <<"s", "o", "f", "t", "w", "a", "r", "e">>
      [] str = "platform" ->
         <<"p", "l", "a", "t", "f", "o", "r", "m">>
      [] str = "new york" ->
         <<"n", "e", "w", " ", "y", "o", "r", "k">>
      [] str = "california" ->
         <<"c", "a", "l", "i", "f", "o", "r", "n", "i", "a">>
      [] str = "london" ->
         <<"l", "o", "n", "d", "o", "n">>
      [] str = "paris" ->
         <<"p", "a", "r", "i", "s">>
      [] str = "chicago" ->
         <<"c", "h", "i", "c", "a", "g", "o">>
      [] str = "boston" ->
         <<"b", "o", "s", "t", "o", "n">>
      [] str = "conference" ->
         <<"c", "o", "n", "f", "e", "r", "e", "n", "c", "e">>
      [] str = "summit" ->
         <<"s", "u", "m", "m", "i", "t">>
      [] str = "meetup" ->
         <<"m", "e", "e", "t", "u", "p">>
      [] str = "Untitled" ->
         <<"U", "n", "t", "i", "t", "l", "e", "d">>
      [] str = "for" ->
         <<"f", "o", "r">>
      [] str = "in" ->
         <<"i", "n">>
      [] str = "with" ->
         <<"w", "i", "t", "h">>
      [] str = "Acme Corp - Digital Marketing Agency" ->
         <<"A", "c", "m", "e", " ", "C", "o", "r", "p", " ", "-", " ", "D", "i",
           "g", "i", "t", "a", "l", " ", "M", "a", "r", "k", "e", "t", "i", "n",
           "g", " ", "A", "g", "e", "n", "c", "y">>
      [] str = "Content Strategy Guide" ->
         <<"C", "o", "n", "t", "e", "n", "t", " ", "S", "t", "r", "a", "t", "e",
           "g", "y", " ", "G", "u", "i", "d", "e">>
      [] str = "Content Strategy Guide for Acme Corp" ->
         <<"C", "o", "n", "t", "e", "n", "t", " ", "S", "t", "r", "a", "t", "e",
           "g", "y", " ", "G", "u", "i", "d", "e", " ", "f", "o", "r", " ", "A",
           "c", "m", "e", " ", "C", "o", "r", "p">>
      [] str = "About Acme Corp" ->
         <<"A", "b", "o", "u", "t", " ", "A", "c", "m", "e", " ", "C", "o", "r",
           "p">>
      [] str = "https://acmecorp.com/" ->
         <<"h", "t", "t", "p", "s", ":", "/", "/", "a", "c", "m", "e", "c", "o",
           "r", "p", ".", "c", "o", "m", "/">>
      [] str = "https://www.acme-corp.com/blog" ->
         <<"h", "t", "t", "p", "s", ":", "/", "/", "w", "w", "w", ".", "a", "c",
           "m", "e", "-", "c", "o", "r", "p", ".", "c", "o", "m", "/", "b", "l",
           "o", "g">>
      [] str = "Acme Corp builds brands. Ask Acme Corp." ->
         <<"A", "c", "m", "e", " ", "C", "o", "r", "p", " ", "b", "u", "i", "l",
           "d", "s", " ", "b", "r", "a", "n", "d", "s", ".", " ", "A", "s", "k",
           " ", "A", "c", "m", "e", " ", "C", "o", "r", "p", ".">>
      [] str = "SEO Audits" ->
         <<"S", "E", "O", " ", "A", "u", "d", "i", "t", "s">>
      [] str = "Acme Corp" ->
         <<"A", "c", "m", "e", " ", "C", "o", "r", "p">>
      [] str = "acmecorp.com" ->
         <<"a", "c", "m", "e", "c", "o", "r", "p", ".", "c", "o", "m">>
      [] str = "Unknown" ->
         <<"U", "n", "k", "n", "o", "w", "n">>

\* line 151
maxN == 5

\* line 175
maxPhrases == 10

\* line 186
capitalizedBonus == Hundredths[5]

\* line 190
nGramBonus == Hundredths[2]

\* line 199
boost == Hundredths[15]

\* line 215
strongScore == Hundredths[15]

\* line 221
bodyEntityScore == Hundredths[12]

\* line 256
subEntityScore == Hundredths[10]

\* line 258
maxSubEntities == 5

\* line 300
brandScore == Hundredths[20]

\* line 306
domainScore == Hundredths[10]

\* line 98
minConfidence == Hundredths[10]

defaultConfidence == Hundredths[70]

\* line 104
salientConfidence == Hundredths[70]

\* line 317
fallbackConfidence == Hundredths[10]

\* lines 24-30
WEIGHTS ==
    [title |-> Hundredths[30], meta |-> Hundredths[25], headings |-> Hundredths[20],
     url |-> Hundredths[7], body |-> Hundredths[5]]

\* this.WEIGHTS[source]: undefined for a source that is no key of the table,
\* and undefined counts as NaN in the sums and comparisons it enters
weightOf(source) == IF source \in DOMAIN WEIGHTS THEN WEIGHTS[source] ELSE FloatNaN

Upper == DOMAIN UpperToLower

Lower == {UpperToLower[c] : c \in Upper}

Digits == {"0", "1", "2", "3", "4", "5", "6", "7", "8", "9"}

\* \w and \s of the regular expressions
WordChars == Upper \cup Lower \cup Digits \cup {"_"}

Spaces == {" ", "\n", "\t"}

\* String.prototype.toUpperCase
toUpperCase(str) ==
    [i \in DOMAIN str |->
        IF str[i] \in Lower THEN CHOOSE c \in Upper : UpperToLower[c] = str[i] ELSE str[i]]

\* String.prototype.includes
stringIncludes(str, part) == IsSubstring(part, str)

\* String.prototype.startsWith
startsWith(str, prefix) == Len(prefix) <= Len(str) /\ SubSeq(str, 1, Len(prefix)) = prefix

\* String.prototype.split with a separator of one character out of cut,
\* empty pieces included
splitAt(str, cut) ==
    LET at == Ascending({i \in DOMAIN str : str[i] \in cut})
        Bound(k) == IF k = 0 THEN 0 ELSE IF k > Len(at) THEN Len(str) + 1 ELSE at[k]
    IN  [k \in 1..(Len(at) + 1) |-> SubSeq(str, Bound(k - 1) + 1, Bound(k) - 1)]

\* text.split(/\s+/).filter(Boolean)
wordsOf(text) == Pieces(text, {i \in DOMAIN text : text[i] \in Spaces})

RECURSIVE Flatten(_)
Flatten(lists) == IF lists = <<>> THEN <<>> ELSE Head(lists) \o Flatten(Tail(lists))

\* /^[A-Z][a-z]+/ at position i of text
capitalizedAt(text, i) ==
    i + 1 <= Len(text) /\ text[i] \in Upper /\ text[i + 1] \in Lower

\* the end of the run of lower-case letters that holds position i
lowerRunEnd(text, i) ==
    CHOOSE j \in i..Len(text) :
        /\ \A k \in i..j : text[k] \in Lower
        /\ j = Len(text) \/ text[j + 1] \notin Lower

\* the end of the longest [A-Z][a-z]+(?: [A-Z][a-z]+)* that starts at i
RECURSIVE capitalizedRunEnd(_, _)
capitalizedRunEnd(text, i) ==
    LET end == lowerRunEnd(text, i + 1)
    IN  IF end + 1 <= Len(text) /\ text[end + 1] = " " /\ capitalizedAt(text, end + 2)
        THEN capitalizedRunEnd(text, end + 2)
        ELSE end

\* /([A-Z][a-z]+(?: [A-Z][a-z]+)+)/ matches at position i
capitalizedNGramAt(text, i) ==
    capitalizedAt(text, i) /\ capitalizedRunEnd(text, i) > lowerRunEnd(text, i + 1)

\* the matches of the global regular expression from position i on: the
\* leftmost one, then those after its end
RECURSIVE capitalizedNGramsFrom(_, _)
capitalizedNGramsFrom(text, i) ==
    LET starts == {j \in i..Len(text) : capitalizedNGramAt(text, j)}
        start == MinOf(starts)
        end == capitalizedRunEnd(text, start)
    IN  IF starts = {} THEN <<>>
        ELSE <<SubSeq(text, start, end)>> \o capitalizedNGramsFrom(text, end + 1)

\* lines 145-148
extractCapitalizedNGrams(text) == capitalizedNGramsFrom(text, 1)

\* lines 155-158 for one n
nGramsOfLength(words, n) ==
    LET starts == SelectSeq([i \in 1..(Len(words) - n + 1) |-> i],
                            LAMBDA i : capitalizedAt(words[i], 1))
    IN  [k \in DOMAIN starts |-> Join(SubSeq(words, starts[k], starts[k] + n - 1), <<" ">>)]

\* lines 151-161
extractAllNGrams(text) ==
    LET words == wordsOf(text)
    IN  Flatten([k \in 1..(Min(maxN, Len(words)) - 1) |-> nGramsOfLength(words, k + 1)])

\* lines 164-176: the phrases by falling count, those of one count in the
\* order of their first occurrence
extractFrequentPhrases(text) ==
    LET grams == extractAllNGrams(text)
        firsts == Ascending({i \in DOMAIN grams : \A j \in 1..(i - 1) : grams[j] # grams[i]})
        phrases == [k \in DOMAIN firsts |-> grams[firsts[k]]]
        Count(k) == Cardinality({i \in DOMAIN grams : grams[i] = phrases[k]})
        Before(j, k) == Count(j) > Count(k) \/ (Count(j) = Count(k) /\ j < k)
        sorted == [p \in DOMAIN phrases |->
                      phrases[CHOOSE k \in DOMAIN phrases :
                                  Cardinality({j \in DOMAIN phrases : Before(j, k)}) = p - 1]]
    IN  Slice(sorted, maxPhrases)

\* the schemes of the URLs of the model; new URL(url) throws for a string
\* without a scheme or without a host
Schemes == {Text("http://"), Text("https://")}

urlParses(url) == \E scheme \in Schemes : startsWith(toLowerCase(url), scheme) /\ Len(url) > Len(scheme)

\* new URL(url).hostname, for a URL without user, password or port
hostname(url) ==
    LET lower == toLowerCase(url)
        scheme == CHOOSE s \in Schemes : startsWith(lower, s)
    IN  splitAt(SubSeq(lower, Len(scheme) + 1, Len(lower)), {"/", "?", "#"})[1]

\* str.replace(part, ''): str without the first occurrence of part
removeFirst(str, part) ==
    LET at == {i \in 1..(Len(str) - Len(part) + 1) : SubSeq(str, i, i + Len(part) - 1) = part}
    IN  IF at = {} THEN str
        ELSE SubSeq(str, 1, MinOf(at) - 1) \o SubSeq(str, MinOf(at) + Len(part), Len(str))

\* lines 262-264
isUrl(str) == \E scheme \in Schemes : startsWith(toLowerCase(str), scheme)

\* lines 265-271
extractDomain(url) ==
    IF urlParses(url)
    THEN IF startsWith(hostname(url), Text("www."))
         THEN removeFirst(hostname(url), Text("www."))
         ELSE hostname(url)
    ELSE url

\* lines 272-279
domainToBrand(domain) ==
    LET base == splitAt(domain, {"."})[1]
        words == splitAt(base, {"-", "_"})
    IN  Join([k \in DOMAIN words |->
                 toUpperCase(Slice(words[k], 1)) \o SubSeq(words[k], 2, Len(words[k]))],
             <<" ">>)

\* lines 561-566
classifyDomain(url) ==
    IF url # <<>> /\ urlParses(url)
    THEN splitAt(removeFirst(hostname(url), Text("www.")), {"."})[1]
    ELSE <<>>

\* line 572
orgKeywords ==
    <<Text("agency"), Text("company"), Text("group"), Text("firm"), Text("influence"),
      Text("consulting"), Text("solutions"), Text("partners"), Text("media"),
      Text("marketing"), Text("seo")>>

includesSome(str, parts) == \E part \in parts : stringIncludes(str, part)

\* [A-Z][a-z]+ for the whole of word
isCapitalizedWord(word) ==
    Len(word) >= 2 /\ word[1] \in Upper /\ \A i \in 2..Len(word) : word[i] \in Lower

\* line 592
hasTitle(entity) ==
    \E title \in {Text("Dr."), Text("Mr."), Text("Mrs."), Text("Ms."), Text("Prof.")} :
        /\ startsWith(entity, title)
        /\ Len(entity) > Len(title)
        /\ entity[Len(title) + 1] \in Spaces

\* line 593
isTwoNames(entity) ==
    LET parts == splitAt(entity, {" "})
    IN  Len(parts) = 2 /\ isCapitalizedWord(parts[1]) /\ isCapitalizedWord(parts[2])

\* lines 557-599
classifyEntityType(entity, url) ==
    LET lowerEntity == toLowerCase(entity)
        domain == classifyDomain(url)
    IN  IF domain # <<>> /\ stringIncludes(lowerEntity, domain) THEN "Organization"
        ELSE IF includesSome(lowerEntity, Range(orgKeywords)) THEN "Organization"
        ELSE IF includesSome(lowerEntity, {Text("university"), Text("college"),
                                           Text("school"), Text("institute")})
        THEN "Organization"
        ELSE IF includesSome(lowerEntity, {Text("course"), Text("program"), Text("training"),
                                           Text("workshop"), Text("software"),
                                           Text("platform")})
        THEN "Product"
        ELSE IF includesSome(lowerEntity, {Text("new york"), Text("california"),
                                           Text("london"), Text("paris"), Text("chicago"),
                                           Text("boston")})
        THEN "Location"
        ELSE IF hasTitle(entity) \/ isTwoNames(entity) THEN "Person"
        ELSE IF includesSome(lowerEntity, {Text("conference"), Text("summit"),
                                           Text("meetup"), Text("workshop")})
        THEN "Event"
        ELSE "Concept"

\* \b of a regular expression before position p of str
wordBoundary(str, p) ==
    LET IsWord(i) == i \in DOMAIN str /\ str[i] \in WordChars
    IN  IsWord(p - 1) # IsWord(p)

\* the number of matches of a global regular expression whose matches start
\* at the positions starts and have length n: the leftmost, then those after
\* its end
RECURSIVE countMatches(_, _)
countMatches(starts, n) ==
    IF starts = {} THEN 0
    ELSE 1 + countMatches({i \in starts : i >= MinOf(starts) + n}, n)

\* lines 510-515 for one entity: the matches of \bentity\b in the body, both
\* in lower case
bodyFrequencyOf(body, entity) ==
    LET lowerBody == toLowerCase(body)
        lowerEntity == toLowerCase(entity)
        n == Len(lowerEntity)
        starts == {i \in 1..(Len(lowerBody) - n + 1) :
                      /\ SubSeq(lowerBody, i, i + n - 1) = lowerEntity
                      /\ wordBoundary(lowerBody, i)
                      /\ wordBoundary(lowerBody, i + n)}
    IN  countMatches(starts, n)

\* lines 136-142
allSourcesOf(c) ==
    (IF Len(c.title) > 2 THEN <<[text |-> c.title, source |-> "title"]>> ELSE <<>>)
    \o (IF Len(c.metaDescription) > 2
        THEN <<[text |-> c.metaDescription, source |-> "meta"]>> ELSE <<>>)
    \o [k \in DOMAIN c.headings |-> [text |-> c.headings[k], source |-> "heading"]]
    \o (IF Len(c.url) > 2 THEN <<[text |-> c.url, source |-> "url"]>> ELSE <<>>)

\* a value of the candidates map with its key
candidateOf(entity, score, source) ==
    [entity |-> entity, score |-> score, sources |-> <<source>>, frequency |-> 0,
     entityType |-> ""]

\* lines 180-191: the candidates one source offers, in the order of the code
offeredBy(text, source) ==
    LET full == IF Len(text) > 2 THEN <<text>> ELSE <<>>
        capitalized == extractCapitalizedNGrams(text)
        grams == extractAllNGrams(text)
    IN  [k \in DOMAIN full |-> candidateOf(full[k], weightOf(source), source)]
        \o [k \in DOMAIN capitalized |->
               candidateOf(capitalized[k], FloatPlus(weightOf(source), capitalizedBonus),
                           source)]
        \o [k \in DOMAIN grams |->
               candidateOf(grams[k], FloatPlus(weightOf(source), nGramBonus), source)]

\* what all the sources offer, in the order of the code
offered(c) ==
    LET sources == allSourcesOf(c)
    IN  Flatten([k \in DOMAIN sources |-> offeredBy(sources[k].text, sources[k].source)])

hasCandidate(map, entity) == \E i \in DOMAIN map : map[i].entity = entity

\* candidates.set for the offers in turn when the map does not have their
\* text: the map, in the order of insertion, holds the first offer of every
\* text
setIfAbsent(map, offers) ==
    LET kept == Ascending({i \in DOMAIN offers :
                    /\ ~hasCandidate(map, offers[i].entity)
                    /\ \A j \in 1..(i - 1) : offers[j].entity # offers[i].entity})
    IN  map \o [k \in DOMAIN kept |-> offers[kept[k]]]

\* lines 179-192
collectCandidates(c) == setIfAbsent(<<>>, offered(c))

fromSources(candidate, sources) == Range(candidate.sources) \cap sources # {}

\* lines 195-201
boostCandidates(map, url) ==
    [i \in DOMAIN map |->
        LET type == classifyEntityType(map[i].entity, url)
        IN  [map[i] EXCEPT
                !.entityType = type,
                !.score = IF type \in {"Person", "Organization"}
                             /\ fromSources(map[i], {"title", "heading"})
                          THEN FloatPlus(@, boost) ELSE @]]

\* line 209: WEIGHTS.body * Math.min(frequency / 10, 1) for the frequencies
\* from 0 to 10; a greater one scores as 10 does
frequencyScores ==
    <<FloatZero,
      Double(<<5244, 3932, 27525, 163>>, -60),
      Double(<<5244, 3932, 27525, 163>>, -59),
      Double(<<7864, 22282, 24903, 245>>, -59),
      Double(<<5244, 3932, 27525, 163>>, -58),
      Double(<<6554, 13107, 26214, 204>>, -58),
      Double(<<7864, 22282, 24903, 245>>, -58),
      Double(<<20971, 15728, 11796, 143>>, -57),
      Double(<<5244, 3932, 27525, 163>>, -57),
      Double(<<22283, 24903, 10485, 184>>, -57),
      Double(<<6554, 13107, 26214, 204>>, -57)>>

frequencyScore(frequency) == frequencyScores[Min(frequency, 10) + 1]

\* NaN times a number is NaN
addFrequencyScore(score, frequency) ==
    IF score = FloatNaN THEN FloatNaN ELSE FloatPlus(score, frequencyScore(frequency))

\* lines 204-211
addBodyFrequencies(map, body) ==
    [i \in DOMAIN map |->
        LET frequency == bodyFrequencyOf(body, map[i].entity)
        IN  [map[i] EXCEPT !.frequency = frequency,
                           !.score = addFrequencyScore(@, frequency)]]

\* line 215
noStrongCandidate(map) ==
    \A i \in DOMAIN map : FloatGreater(strongScore, map[i].score)

\* lines 216-219
fallbackBodyEntitiesOf(body) == extractCapitalizedNGrams(body) \o extractFrequentPhrases(body)

\* lines 220-222
addBodyEntities(map, entities, url) ==
    setIfAbsent(map, [k \in DOMAIN entities |->
                        [entity |-> entities[k], score |-> bodyEntityScore,
                         sources |-> <<"body">>, frequency |-> 0,
                         entityType |-> classifyEntityType(entities[k], url)]])

noBest ==
    [entity |-> <<>>, score |-> FloatZero, sources |-> <<>>, frequency |-> 0,
     entityType |-> ""]

\* a loop of lines 231-240 or 243-251 over the candidates at the positions
\* eligible, from bestScore 0: the first of those whose score is above 0 and
\* not below another's
bestOf(map, eligible) ==
    LET positive == {i \in eligible : FloatGreater(map[i].score, FloatZero)}
        first == MinOf({i \in positive :
                           \A j \in positive : ~FloatGreater(map[j].score, map[i].score)})
    IN  IF positive = {} THEN noBest ELSE map[first]

\* lines 226-252
selectBest(map) ==
    LET preferred == bestOf(map, {i \in DOMAIN map :
                                     fromSources(map[i], {"title", "meta", "heading"})})
    IN  IF preferred.entity # <<>> THEN preferred ELSE bestOf(map, DOMAIN map)

\* a list by falling score, equal scores in the order of the list
sortByScore(list) ==
    LET Before(j, k) ==
            \/ FloatGreater(list[j].score, list[k].score)
            \/ ~FloatGreater(list[k].score, list[j].score) /\ j < k
    IN  [p \in DOMAIN list |->
            list[CHOOSE k \in DOMAIN list :
                     Cardinality({j \in DOMAIN list : Before(j, k)}) = p - 1]]

\* lines 255-259
subEntitiesOf(map, bestEntity) ==
    LET kept == SelectSeq(map, LAMBDA candidate :
                    /\ candidate.entity # bestEntity
                    /\ fromSources(candidate, {"title", "meta", "heading", "body"})
                    /\ FloatGreater(candidate.score, subEntityScore))
        sorted == Slice(sortByScore(kept), maxSubEntities)
    IN  [k \in DOMAIN sorted |-> sorted[k].entity]

\* lines 287-291
matchesBrand(entity, domain) ==
    LET lowerEntity == toLowerCase(entity)
        lowerBrand == toLowerCase(domainToBrand(domain))
    IN  \/ lowerEntity = lowerBrand
        \/ stringIncludes(toLowerCase(domain), lowerEntity)
        \/ stringIncludes(lowerEntity, lowerBrand)

\* lines 282-308: the chosen candidate after the replacement of a URL or domain
replaceUrl(chosen, map, url) ==
    LET domain == extractDomain(url)
        brands == {i \in DOMAIN map : matchesBrand(map[i].entity, domain)}
        brand == map[MinOf(brands)]
    IN  IF ~(isUrl(chosen.entity) \/ chosen.entity = domain) THEN chosen
        ELSE IF brands # {}
        THEN [chosen EXCEPT !.entity = brand.entity,
                          !.entityType = IF brand.entityType = "" THEN "Organization"
                                         ELSE brand.entityType,
                          !.sources = brand.sources,
                          !.score = IF brand.score \in {FloatNaN, FloatZero}
                                    THEN brandScore ELSE brand.score]
        ELSE [chosen EXCEPT !.entity = domainToBrand(domain),
                          !.entityType = "Organization",
                          !.sources = <<"url">>,
                          !.score = domainScore]

\* line 311
fallbackEntity(c, bodyEntities) ==
    IF Len(c.title) > 2 THEN c.title
    ELSE IF c.headings # <<>> /\ c.headings[1] # <<>> THEN c.headings[1]
    ELSE IF c.metaDescription # <<>> THEN c.metaDescription
    ELSE IF bodyEntities # <<>> /\ bodyEntities[1] # <<>> THEN bodyEntities[1]
    ELSE IF domainToBrand(extractDomain(c.url)) # <<>> THEN domainToBrand(extractDomain(c.url))
    ELSE Text("Untitled")

\* lines 605-623
sourceConfidences ==
    [title |-> Hundredths[40], meta |-> Hundredths[25], heading |-> Hundredths[20],
     url |-> Hundredths[10], body |-> Hundredths[5]]

sourceConfidence(source) ==
    IF source \in DOMAIN sourceConfidences THEN sourceConfidences[source] ELSE FloatZero

RECURSIVE sourcesConfidence(_, _)
sourcesConfidence(sources, k) ==
    IF k = 0 THEN FloatZero
    ELSE FloatPlus(sourcesConfidence(sources, k - 1), sourceConfidence(sources[k]))

\* line 627: Math.min(frequency / 20, 0.2) for the frequencies from 1 to 4; a
\* greater one adds what 4 does
frequencyConfidences == <<Hundredths[5], Hundredths[10], Hundredths[15], Hundredths[20]>>

\* line 632
specificConfidence == Hundredths[10]

\* lines 601-637
calculateConfidence(entity, sources, frequency) ==
    LET base == sourcesConfidence(sources, Len(sources))
        frequent == IF frequency > 0
                    THEN FloatPlus(base, frequencyConfidences[Min(frequency, 4)])
                    ELSE base
        specific == IF Len(splitAt(entity, {" "})) > 2
                    THEN FloatPlus(frequent, specificConfidence) ELSE frequent
    IN  MathMin(specific, FloatOfInt(1))

\* /(.+)\s+word\s+(.+)/i matches in entity
hasCombining(entity, word) ==
    LET n == Len(word)
        Blank(from, to) == \A i \in from..to : entity[i] \in Spaces
    IN  \E at \in 1..(Len(entity) - n + 1) :
            /\ toLowerCase(SubSeq(entity, at, at + n - 1)) = word
            /\ \E before \in 1..(at - 2) :
                  entity[before] # "\n" /\ Blank(before + 1, at - 1)
            /\ \E after \in (at + n + 1)..Len(entity) :
                  entity[after] # "\n" /\ Blank(at + n, after - 1)

\* lines 520-553, null as the empty string
detectCombinedTopics(entities) ==
    LET combined == {i \in DOMAIN entities :
                        \E word \in {Text("for"), Text("in"), Text("with")} :
                            hasCombining(entities[i], word)}
        words1 == splitAt(toLowerCase(entities[1]), {" "})
        words2 == splitAt(toLowerCase(entities[2]), {" "})
    IN  IF Len(entities) < 2 THEN <<>>
        ELSE IF combined # {} THEN entities[MinOf(combined)]
        ELSE IF Range(words1) \cap Range(words2) = {}
        THEN entities[1] \o <<" ">> \o entities[2]
        ELSE <<>>

\* line 95
acceptsEntity(obj) == Len(obj.entity) > 2 /\ ~isUrl(obj.entity)

\* line 98: Number(obj.confidence) is NaN for a reply without a number
clampConfidence(confidence) ==
    MathMax(minConfidence,
            MathMin(FloatOfInt(1),
                    IF confidence \in {FloatNaN, FloatZero} THEN defaultConfidence
                    ELSE confidence))

\* lines 101-103: the products of the comparator are NaN, for an extracted
\* entity has no relevance (types.ts, lines 4-9), and the sort keeps the order
bestConceptOf(extracted) ==
    SelectSeq(extracted, LAMBDA e : e.type \in {"concept", "service"})

\* lines 96-119
llmTopic(obj, extracted) ==
    LET mainType == IF obj.entityType = "" THEN "Concept" ELSE obj.entityType
        concepts == bestConceptOf(extracted)
        overridden == /\ mainType = "organization"
                      /\ concepts # <<>>
                      /\ concepts[1].entity # <<>>
                      /\ FloatGreater(concepts[1].confidence, salientConfidence)
    IN  [entity |-> IF overridden THEN concepts[1].entity ELSE obj.entity,
         confidence |-> IF overridden THEN concepts[1].confidence
                        ELSE clampConfidence(obj.confidence),
         entityType |-> IF ~overridden THEN mainType
                        ELSE IF concepts[1].type = "service" THEN "Service" ELSE "Concept",
         source |-> "title",
         subEntities |-> <<>>,
         combinedTopic |-> <<>>]

\* lines 315-322
fallbackTopic(c, bodyEntities) ==
    [entity |-> fallbackEntity(c, bodyEntities),
     confidence |-> fallbackConfidence,
     entityType |-> "Concept",
     source |-> "title",
     subEntities |-> <<>>,
     combinedTopic |-> <<>>]

\* line 651
safelyConfidence == Hundredths[30]

\* lines 648-655 of extractPrimaryTopicSafely
safelyFallback(c) ==
    [entity |-> Join(Slice(splitAt(c.title, {" "}), 3), <<" ">>),
     confidence |-> safelyConfidence,
     entityType |-> "Concept",
     source |-> "title",
     subEntities |-> <<>>,
     combinedTopic |-> <<>>]

\* lines 326-342
heuristicTopic(bestCandidate, subs) ==
    [entity |-> bestCandidate.entity,
     confidence |-> calculateConfidence(bestCandidate.entity, bestCandidate.sources,
                                        bestCandidate.frequency),
     entityType |-> bestCandidate.entityType,
     source |-> bestCandidate.sources[1],
     subEntities |-> subs,
     combinedTopic |-> detectCombinedTopics(<<bestCandidate.entity>> \o subs)]

\* the last title is the one of a page whose title element holds its address
TitleInputs ==
    {<<>>, Text("Acme Corp - Digital Marketing Agency"), Text("Content Strategy Guide"),
     Text("https://www.acme-corp.com/blog")}

MetaInputs == {<<>>, Text("Content Strategy Guide for Acme Corp"), Text("About Acme Corp")}

HeadingPool == <<Text("Content Strategy Guide"), Text("About Acme Corp")>>

HeadingInputs == {SubSeq(HeadingPool, 1, n) : n \in 0..MaxHeadings}

UrlInputs == {<<>>, Text("https://acmecorp.com/"), Text("https://www.acme-corp.com/blog")}

\* a property that the content does not carry: the content elements are spread
\* from an untyped object (analyzer.ts, lines 953-956), and lines 52 and 65 read
\* the body with ?.
undefined == <<"undefined">>

BodyInputs == {<<>>, Text("Acme Corp builds brands. Ask Acme Corp."), undefined}

\* the entities of entityExtractor.ts, whose confidence is a number of 70 to 100
\* (lines 31, 69-70, 97, 112, 136)
ExtractedPool ==
    <<[entity |-> Text("SEO Audits"), type |-> "service", confidence |-> FloatOfInt(95)],
      [entity |-> Text("Acme Corp"), type |-> "organization", confidence |-> FloatOfInt(70)]>>

ExtractedInputs == {SubSeq(ExtractedPool, 1, n) : n \in 0..MaxExtracted}

ContentElementsInputs ==
    [title : TitleInputs, metaDescription : MetaInputs, headings : HeadingInputs,
     url : UrlInputs, bodyText : BodyInputs, extractedEntities : ExtractedInputs]

\* the replies of the LLM: one that is no JSON, and objects
LlmReplyInputs ==
    {[parses |-> FALSE, entity |-> <<>>, entityType |-> "", confidence |-> FloatNaN],
     [parses |-> TRUE, entity |-> Text("Acme Corp"), entityType |-> "organization",
      confidence |-> Hundredths[90]],
     [parses |-> TRUE, entity |-> Text("acmecorp.com"), entityType |-> "Organization",
      confidence |-> FloatOfInt(5)],
     [parses |-> TRUE, entity |-> Text("https://acmecorp.com/"),
      entityType |-> "organization", confidence |-> Hundredths[90]],
     [parses |-> TRUE, entity |-> Text("Unknown"), entityType |-> "",
      confidence |-> FloatNaN]}

TopicInit ==
    /\ topicContent \in ContentElementsInputs
    /\ apiKey \in BOOLEAN
    /\ llmRequests = 0
    /\ candidates = <<>>
    /\ fallbackBodyEntities = <<>>
    /\ bestData = noBest
    /\ subEntities = <<>>
    /\ topicResult = <<>>
    /\ topicPc = "start"

\* lines 55-56, 131-133
NoApiKey ==
    /\ topicPc = "start"
    /\ ~apiKey
    /\ topicPc' = "collect"
    /\ UNCHANGED <<topicContent, apiKey, llmRequests, candidates, fallbackBodyEntities,
                   bestData, subEntities, topicResult>>
    /\ UNCHANGED notTopicVars

\* lines 56-83
RequestLlm ==
    /\ topicPc = "start"
    /\ apiKey
    /\ llmRequests' = llmRequests + 1
    /\ topicPc' = "awaiting"
    /\ UNCHANGED <<topicContent, apiKey, candidates, fallbackBodyEntities, bestData,
                   subEntities, topicResult>>
    /\ UNCHANGED notTopicVars

\* a detection that asks the LLM again after a request that threw
LlmThrewAsksAgain ==
    /\ topicPc = "awaiting"
    /\ llmRequests < 2
    /\ topicPc' = "start"
    /\ UNCHANGED <<topicContent, apiKey, llmRequests, candidates, fallbackBodyEntities,
                   bestData, subEntities, topicResult>>
    /\ UNCHANGED notTopicVars

\* lines 68-83, 128-130: fetch throws
LlmThrew ==
    /\ topicPc = "awaiting"
    /\ topicPc' = "collect"
    /\ UNCHANGED <<topicContent, apiKey, llmRequests, candidates, fallbackBodyEntities,
                   bestData, subEntities, topicResult>>
    /\ UNCHANGED notTopicVars

\* lines 85, 125-127: the status of the response is not OK
LlmNotOk ==
    /\ topicPc = "awaiting"
    /\ topicPc' = "collect"
    /\ UNCHANGED <<topicContent, apiKey, llmRequests, candidates, fallbackBodyEntities,
                   bestData, subEntities, topicResult>>
    /\ UNCHANGED notTopicVars

\* lines 86-89: the reply is empty
LlmRepliedNothing ==
    /\ topicPc = "awaiting"
    /\ topicPc' = "collect"
    /\ UNCHANGED <<topicContent, apiKey, llmRequests, candidates, fallbackBodyEntities,
                   bestData, subEntities, topicResult>>
    /\ UNCHANGED notTopicVars

\* lines 89-123
LlmReplied ==
    /\ topicPc = "awaiting"
    /\ \E reply \in LlmReplyInputs :
          IF reply.parses /\ acceptsEntity(reply)
          THEN /\ topicResult' = llmTopic(reply, topicContent.extractedEntities)
               /\ topicPc' = "done"
          ELSE /\ topicPc' = "collect"
               /\ UNCHANGED topicResult
    /\ UNCHANGED <<topicContent, apiKey, llmRequests, candidates, fallbackBodyEntities,
                   bestData, subEntities>>
    /\ UNCHANGED notTopicVars

\* lines 136-192
CollectCandidates ==
    /\ topicPc = "collect"
    /\ candidates' = collectCandidates(topicContent)
    /\ topicPc' = "boost"
    /\ UNCHANGED <<topicContent, apiKey, llmRequests, fallbackBodyEntities, bestData,
                   subEntities, topicResult>>
    /\ UNCHANGED notTopicVars

\* lines 195-201
BoostCandidates ==
    /\ topicPc = "boost"
    /\ candidates' = boostCandidates(candidates, topicContent.url)
    /\ topicPc' = "frequency"
    /\ UNCHANGED <<topicContent, apiKey, llmRequests, fallbackBodyEntities, bestData,
                   subEntities, topicResult>>
    /\ UNCHANGED notTopicVars

\* lines 204-211
AnalyzeBodyFrequency ==
    /\ topicPc = "frequency"
    /\ topicContent.bodyText # undefined
    /\ candidates' = addBodyFrequencies(candidates, topicContent.bodyText)
    /\ topicPc' = "body"
    /\ UNCHANGED <<topicContent, apiKey, llmRequests, fallbackBodyEntities, bestData,
                   subEntities, topicResult>>
    /\ UNCHANGED notTopicVars

\* lines 204, 508: body.toLowerCase() throws when the content has no bodyText,
\* and the promise of extractPrimaryTopic is rejected
AnalyzeBodyFrequencyThrew ==
    /\ topicPc = "frequency"
    /\ topicContent.bodyText = undefined
    /\ topicPc' = "threw"
    /\ UNCHANGED <<topicContent, apiKey, llmRequests, candidates, fallbackBodyEntities,
                   bestData, subEntities, topicResult>>
    /\ UNCHANGED notTopicVars

\* lines 644-655: the catch of extractPrimaryTopicSafely
ExtractPrimaryTopicSafely ==
    /\ topicPc = "threw"
    /\ topicResult' = safelyFallback(topicContent)
    /\ topicPc' = "safelyDone"
    /\ UNCHANGED <<topicContent, apiKey, llmRequests, candidates, fallbackBodyEntities,
                   bestData, subEntities>>
    /\ UNCHANGED notTopicVars

\* lines 214-223
ExtractFromBody ==
    /\ topicPc = "body"
    /\ IF candidates = <<>> \/ noStrongCandidate(candidates)
       THEN /\ fallbackBodyEntities' = fallbackBodyEntitiesOf(topicContent.bodyText)
            /\ candidates' = addBodyEntities(candidates, fallbackBodyEntities',
                                             topicContent.url)
       ELSE UNCHANGED <<fallbackBodyEntities, candidates>>
    /\ topicPc' = "select"
    /\ UNCHANGED <<topicContent, apiKey, llmRequests, bestData, subEntities, topicResult>>
    /\ UNCHANGED notTopicVars

\* lines 226-252
SelectBest ==
    /\ topicPc = "select"
    /\ bestData' = selectBest(candidates)
    /\ topicPc' = "subEntities"
    /\ UNCHANGED <<topicContent, apiKey, llmRequests, candidates, fallbackBodyEntities,
                   subEntities, topicResult>>
    /\ UNCHANGED notTopicVars

\* lines 255-259
CollectSubEntities ==
    /\ topicPc = "subEntities"
    /\ subEntities' = subEntitiesOf(candidates, bestData.entity)
    /\ topicPc' = "brand"
    /\ UNCHANGED <<topicContent, apiKey, llmRequests, candidates, fallbackBodyEntities,
                   bestData, topicResult>>
    /\ UNCHANGED notTopicVars

\* lines 282-308
ReplaceUrl ==
    /\ topicPc = "brand"
    /\ bestData' = replaceUrl(bestData, candidates, topicContent.url)
    /\ topicPc' = "return"
    /\ UNCHANGED <<topicContent, apiKey, llmRequests, candidates, fallbackBodyEntities,
                   subEntities, topicResult>>
    /\ UNCHANGED notTopicVars

\* lines 310-323
ReturnFallbackTopic ==
    /\ topicPc = "return"
    /\ Len(bestData.entity) < 2
    /\ topicResult' = fallbackTopic(topicContent, fallbackBodyEntities)
    /\ topicPc' = "done"
    /\ UNCHANGED <<topicContent, apiKey, llmRequests, candidates, fallbackBodyEntities,
                   bestData, subEntities>>
    /\ UNCHANGED notTopicVars

\* lines 326-342
ReturnTopic ==
    /\ topicPc = "return"
    /\ Len(bestData.entity) >= 2
    /\ topicResult' = heuristicTopic(bestData, subEntities)
    /\ topicPc' = "done"
    /\ UNCHANGED <<topicContent, apiKey, llmRequests, candidates, fallbackBodyEntities,
                   bestData, subEntities>>
    /\ UNCHANGED notTopicVars

TopicNext ==
    \/ NoApiKey
    \/ RequestLlm
    \/ LlmThrew
    \/ LlmNotOk
    \/ LlmRepliedNothing
    \/ LlmReplied
    \/ CollectCandidates
    \/ BoostCandidates
    \/ AnalyzeBodyFrequency
    \/ AnalyzeBodyFrequencyThrew
    \/ ExtractPrimaryTopicSafely
    \/ ExtractFromBody
    \/ SelectBest
    \/ CollectSubEntities
    \/ ReplaceUrl
    \/ ReturnFallbackTopic
    \/ ReturnTopic

TopicIdle ==
    /\ topicContent = <<>>
    /\ apiKey = FALSE
    /\ llmRequests = 0
    /\ candidates = <<>>
    /\ fallbackBodyEntities = <<>>
    /\ bestData = <<>>
    /\ subEntities = <<>>
    /\ topicResult = <<>>
    /\ topicPc = "idle"

\* the doubles written out above are those the code computes
DoublesAsWritten ==
    /\ \A n \in DOMAIN Hundredths : Hundredths[n] = Decimal(n, 100)
    /\ \A f \in 0..10 :
          frequencyScores[f + 1]
              = FloatTimes(WEIGHTS.body,
                           MathMin(FloatDividedBy(FloatOfInt(f), FloatOfInt(10)),
                                   FloatOfInt(1)))
    /\ \A f \in 1..4 :
          frequencyConfidences[f]
              = MathMin(FloatDividedBy(FloatOfInt(f), FloatOfInt(20)), Hundredths[20])

(***************************************************************************)
(* The best chunk of a query (analyzer.ts 699-743), with the similarities  *)
(* as the doubles that cosineSimilarity returns                            *)
(***************************************************************************)
\* embeddings of one length
EmbeddingPool == {<<1, 1, 1>>, <<-1, -1, -1>>, <<1, 0, 0>>, <<0, 0, 0>>, <<1, 1, 0>>}

MatchChunkInputs == UNION {[1..n -> EmbeddingPool] : n \in 0..MaxMatchChunks}

\* line 668
thresholdDouble == Hundredths[70]

\* lines 733-741
failedMatchDouble ==
    [similarity |-> FloatZero, matched |-> FALSE, context |-> <<>>, bestChunkIndex |-> -1]

MatchInit ==
    /\ matchQueryEmbedding \in EmbeddingPool
    /\ matchChunkEmbeddings \in MatchChunkInputs
    /\ matchCompared = 0
    /\ matchBestSimilarity = FloatZero
    /\ matchBestChunk = <<>>
    /\ matchBestChunkIndex = -1
    /\ matchResult = <<>>
    /\ matchPc = "embed"

\* lines 701, 731-742: generateEmbedding(query) throws
MatchQueryFailed ==
    /\ matchPc = "embed"
    /\ matchResult' = <<failedMatchDouble>>
    /\ matchPc' = "returned"
    /\ UNCHANGED <<matchQueryEmbedding, matchChunkEmbeddings, matchCompared,
                   matchBestSimilarity, matchBestChunk, matchBestChunkIndex>>
    /\ UNCHANGED notMatchVars

\* lines 701-706
MatchQueryEmbedded ==
    /\ matchPc = "embed"
    /\ matchBestSimilarity' = FloatZero
    /\ matchBestChunk' = <<>>
    /\ matchBestChunkIndex' = -1
    /\ matchPc' = "compare"
    /\ UNCHANGED <<matchQueryEmbedding, matchChunkEmbeddings, matchCompared, matchResult>>
    /\ UNCHANGED notMatchVars

\* lines 708-716: the next chunk is compared
CompareChunk ==
    /\ matchPc = "compare"
    /\ matchCompared < Len(matchChunkEmbeddings)
    /\ LET k == matchCompared + 1
           similarity == cosineSimilarityDouble(matchQueryEmbedding,
                                                matchChunkEmbeddings[k])
       IN  IF FloatGreater(similarity, matchBestSimilarity)
           THEN /\ matchBestSimilarity' = similarity
                /\ matchBestChunk' = ChunkText(1, k)
                /\ matchBestChunkIndex' = k - 1
           ELSE UNCHANGED <<matchBestSimilarity, matchBestChunk, matchBestChunkIndex>>
    /\ matchCompared' = matchCompared + 1
    /\ UNCHANGED <<matchQueryEmbedding, matchChunkEmbeddings, matchResult, matchPc>>
    /\ UNCHANGED notMatchVars

\* lines 718-729
ReturnMatch ==
    /\ matchPc = "compare"
    /\ matchCompared = Len(matchChunkEmbeddings)
    /\ matchResult' = <<[similarity |-> matchBestSimilarity,
                         matched |-> ~FloatLess(matchBestSimilarity, thresholdDouble),
                         context |-> matchBestChunk,
                         bestChunkIndex |-> matchBestChunkIndex]>>
    /\ matchPc' = "returned"
    /\ UNCHANGED <<matchQueryEmbedding, matchChunkEmbeddings, matchCompared,
                   matchBestSimilarity, matchBestChunk, matchBestChunkIndex>>
    /\ UNCHANGED notMatchVars

MatchNext ==
    \/ MatchQueryFailed
    \/ MatchQueryEmbedded
    \/ CompareChunk
    \/ ReturnMatch

MatchIdle ==
    /\ matchQueryEmbedding = <<>>
    /\ matchChunkEmbeddings = <<>>
    /\ matchCompared = 0
    /\ matchBestSimilarity = <<>>
    /\ matchBestChunk = <<>>
    /\ matchBestChunkIndex = -1
    /\ matchResult = <<>>
    /\ matchPc = "idle"

(***************************************************************************)
(* scrapeContent (scraper.ts 148-190), with scrapeWithFirecrawl (36-96)    *)
(* and scrapeWithFallback (98-143)                                         *)
(***************************************************************************)
MAX_RETRIES == 3

\* the url arguments, each with what new URL(url) makes of it
RetryUrlInputs ==
    {[url |-> "https://a.example", parses |-> TRUE, protocol |-> "https:"],
     [url |-> "http://b.example", parses |-> TRUE, protocol |-> "http:"],
     [url |-> "ftp://a.example", parses |-> TRUE, protocol |-> "ftp:"],
     [url |-> "a.example", parses |-> FALSE, protocol |-> ""]}

\* lines 238-245
isValidUrl(url) == url.parses /\ url.protocol \in {"http:", "https:"}

\* lines 60-68, 89-95: what makes scrapeWithFirecrawl throw
FirecrawlFailures ==
    {"fetch failed", "HTTP 500: Internal Server Error", "Failed to scrape content"}

\* lines 102-118, 136-142: what makes scrapeWithFallback throw
FallbackFailures == {"This operation was aborted", "HTTP 404: Not Found"}

\* the ScrapingError of lines 91-94 and 138-141
scrapingError(message, url) == [name |-> "ScrapingError", message |-> message, url |-> url]

\* line 177
backoffDelay(n) == (2 ^ n) * 1000

RetryInit ==
    /\ retryUrl \in RetryUrlInputs
    /\ firecrawlApiKey \in BOOLEAN
    /\ attempt = 0
    /\ lastError = <<>>
    /\ requests = <<>>
    /\ retryDelay = 0
    /\ retryOutcome = <<>>
    /\ retryPc = "call"

\* lines 149-151
RejectInvalidUrl ==
    /\ retryPc = "call"
    /\ ~isValidUrl(retryUrl)
    /\ retryOutcome' = <<[threw |-> scrapingError(<<"Invalid URL format">>, retryUrl.url)]>>
    /\ retryPc' = "threw"
    /\ UNCHANGED <<retryUrl, firecrawlApiKey, attempt, lastError, requests, retryDelay>>
    /\ UNCHANGED notRetryVars

\* lines 149-155: the url is valid and the loop starts
StartAttempts ==
    /\ retryPc = "call"
    /\ isValidUrl(retryUrl)
    /\ attempt' = 1
    /\ retryPc' = "attempt"
    /\ UNCHANGED <<retryUrl, firecrawlApiKey, lastError, requests, retryDelay, retryOutcome>>
    /\ UNCHANGED notRetryVars

\* a call that asks Firecrawl on every attempt
RequestFirecrawlEveryAttempt ==
    /\ retryPc = "attempt"
    /\ attempt <= MAX_RETRIES
    /\ firecrawlApiKey
    /\ requests' = Append(requests, "firecrawl")
    /\ retryPc' = "firecrawl"
    /\ UNCHANGED <<retryUrl, firecrawlApiKey, attempt, lastError, retryDelay, retryOutcome>>
    /\ UNCHANGED notRetryVars

\* lines 155-159: Firecrawl is asked on the first attempt when the key is set
RequestFirecrawl ==
    /\ retryPc = "attempt"
    /\ attempt <= MAX_RETRIES
    /\ firecrawlApiKey /\ attempt = 1
    /\ requests' = Append(requests, "firecrawl")
    /\ retryPc' = "firecrawl"
    /\ UNCHANGED <<retryUrl, firecrawlApiKey, attempt, lastError, retryDelay, retryOutcome>>
    /\ UNCHANGED notRetryVars

\* lines 159, 70-88
FirecrawlReturned ==
    /\ retryPc = "firecrawl"
    /\ retryOutcome' = <<[returned |-> [url |-> retryUrl.url, by |-> "firecrawl"]]>>
    /\ retryPc' = "returned"
    /\ UNCHANGED <<retryUrl, firecrawlApiKey, attempt, lastError, requests, retryDelay>>
    /\ UNCHANGED notRetryVars

\* lines 160-164, 89-95
FirecrawlThrew ==
    /\ retryPc = "firecrawl"
    /\ \E failure \in FirecrawlFailures :
          lastError' = <<scrapingError(<<"Firecrawl scraping failed", failure>>, retryUrl.url)>>
    /\ retryPc' = "useFallback"
    /\ UNCHANGED <<retryUrl, firecrawlApiKey, attempt, requests, retryDelay, retryOutcome>>
    /\ UNCHANGED notRetryVars

\* lines 167-169: the page is fetched, after Firecrawl failed or without it
RequestFallback ==
    /\ \/ retryPc = "useFallback"
       \/ /\ retryPc = "attempt"
          /\ attempt <= MAX_RETRIES
          /\ ~(firecrawlApiKey /\ attempt = 1)
    /\ requests' = Append(requests, "fallback")
    /\ retryPc' = "fallback"
    /\ UNCHANGED <<retryUrl, firecrawlApiKey, attempt, lastError, retryDelay, retryOutcome>>
    /\ UNCHANGED notRetryVars

\* lines 169, 120-135
FallbackReturned ==
    /\ retryPc = "fallback"
    /\ retryOutcome' = <<[returned |-> [url |-> retryUrl.url, by |-> "fallback"]]>>
    /\ retryPc' = "returned"
    /\ UNCHANGED <<retryUrl, firecrawlApiKey, attempt, lastError, requests, retryDelay>>
    /\ UNCHANGED notRetryVars

\* lines 170-179, 136-142: the fetch failed; the call waits before the next
\* attempt, or leaves the loop after the last one
FallbackThrew ==
    /\ retryPc = "fallback"
    /\ \E failure \in FallbackFailures :
          lastError' = <<scrapingError(<<"Fallback scraping failed", failure>>, retryUrl.url)>>
    /\ IF attempt < MAX_RETRIES
       THEN /\ retryDelay' = backoffDelay(attempt)
            /\ retryPc' = "backoff"
            /\ UNCHANGED attempt
       ELSE /\ attempt' = attempt + 1
            /\ retryPc' = "attempt"
            /\ UNCHANGED retryDelay
    /\ UNCHANGED <<retryUrl, firecrawlApiKey, requests, retryOutcome>>
    /\ UNCHANGED notRetryVars

\* lines 178, 155: the delay is over and the next attempt begins
BackoffElapsed ==
    /\ retryPc = "backoff"
    /\ attempt' = attempt + 1
    /\ retryDelay' = 0
    /\ retryPc' = "attempt"
    /\ UNCHANGED <<retryUrl, firecrawlApiKey, lastError, requests, retryOutcome>>
    /\ UNCHANGED notRetryVars

\* lines 185-189
ThrowAfterRetries ==
    /\ retryPc = "attempt"
    /\ attempt > MAX_RETRIES
    /\ retryOutcome' =
          <<[threw |-> scrapingError(
                <<"Failed to scrape content after MAX_RETRIES attempts">>
                    \o (IF lastError = <<>> THEN <<"Unknown error">>
                        ELSE lastError[1].message),
                retryUrl.url)]>>
    /\ retryPc' = "threw"
    /\ UNCHANGED <<retryUrl, firecrawlApiKey, attempt, lastError, requests, retryDelay>>
    /\ UNCHANGED notRetryVars

RetryNext ==
    \/ RejectInvalidUrl
    \/ StartAttempts
    \/ RequestFirecrawl
    \/ FirecrawlReturned
    \/ FirecrawlThrew
    \/ RequestFallback
    \/ FallbackReturned
    \/ FallbackThrew
    \/ BackoffElapsed
    \/ ThrowAfterRetries

RetryIdle ==
    /\ retryUrl = <<>>
    /\ firecrawlApiKey = FALSE
    /\ attempt = 0
    /\ lastError = <<>>
    /\ requests = <<>>
    /\ retryDelay = 0
    /\ retryOutcome = <<>>
    /\ retryPc = "idle"

(***************************************************************************)
(* The memory cache (cache.ts 7-11, 72-157, 260-284, 332-336), with no     *)
(* redis client: initRedisClient resolves to null                          *)
(***************************************************************************)
\* line 7, in seconds
CACHE_TTL == 86400

\* line 8
MAX_MEMORY_CACHE_SIZE == 1000

\* the milliseconds between two readings of the clock
tickMs == 500

\* the keys and the ttl arguments of the calls
CacheKeyInputs == {"2", "a"}

TtlInputs == {0, 1}

\* the entry that setCache(ToString(i), "v", ttl) made at time 0, with
\* ttl = 1 for the even i and the default for the others
filledEntry(i) ==
    [key |-> ToString(i), data |-> "v",
     expires |-> IF i % 2 = 0 THEN 1000 ELSE CACHE_TTL * 1000]

\* memoryCache.get(key): <<>> for undefined
memoryCacheGet(cache, key) ==
    LET found == {i \in DOMAIN cache : cache[i].key = key}
    IN  IF found = {} THEN <<>> ELSE <<cache[CHOOSE i \in found : TRUE]>>

\* memoryCache.set(key, {data, expires}): a key that is present keeps its
\* place in the insertion order
memoryCacheSet(cache, key, data, expires) ==
    LET entry == [key |-> key, data |-> data, expires |-> expires]
    IN  IF memoryCacheGet(cache, key) = <<>>
        THEN Append(cache, entry)
        ELSE [i \in DOMAIN cache |-> IF cache[i].key = key THEN entry ELSE cache[i]]

\* memoryCache.delete(key)
memoryCacheDelete(cache, key) ==
    LET others(entry) == entry.key # key
    IN  SelectSeq(cache, others)

\* lines 276-279: the first count entries of the entries sorted by expires;
\* the sort is stable, so each is the first of those that expire earliest
\* among the entries not yet taken
RECURSIVE toRemove(_, _)
toRemove(entries, count) ==
    IF count <= 0 \/ entries = <<>> THEN <<>>
    ELSE LET times == {entries[i].expires : i \in DOMAIN entries}
             earliest == CHOOSE time \in times : \A other \in times : time <= other
             first == CHOOSE i \in DOMAIN entries :
                         /\ entries[i].expires = earliest
                         /\ \A j \in 1..(i - 1) : entries[j].expires # earliest
             rest == [i \in 1..(Len(entries) - 1) |->
                        IF i < first THEN entries[i] ELSE entries[i + 1]]
         IN  <<entries[first]>> \o toRemove(rest, count - 1)

\* a clean-up that deletes the expired entries and no others
cleanupExpiredOnly(cache, now) ==
    LET live(entry) == ~(now >= entry.expires)
    IN  SelectSeq(cache, live)

\* lines 260-284
cleanupMemoryCache(cache, now) ==
    LET live(entry) == ~(now >= entry.expires)
        unexpired == SelectSeq(cache, live)
    IN  IF Len(unexpired) > MAX_MEMORY_CACHE_SIZE
        THEN LET removed ==
                   Range(toRemove(unexpired, Len(unexpired) - MAX_MEMORY_CACHE_SIZE))
                 kept(entry) == entry \notin removed
             IN  SelectSeq(unexpired, kept)
        ELSE unexpired

\* lines 80-84
setCache(cache, key, value, ttl, now) ==
    LET expires == now + (ttl * 1000)
        stored == memoryCacheSet(cache, key, value, expires)
    IN  IF Len(stored) > MAX_MEMORY_CACHE_SIZE
        THEN cleanupMemoryCache(stored, now)
        ELSE stored

\* lines 109-117: what getCache returns (<<>> for null), with the entry it
\* looked at and the time it read
getCache(cache, key, now) ==
    LET cached == memoryCacheGet(cache, key)
    IN  [key |-> key, cached |-> cached, now |-> now,
         data |-> IF cached # <<>> /\ now < cached[1].expires
                  THEN <<cached[1].data>> ELSE <<>>]

\* lines 109-117: the cache after getCache
afterGetCache(cache, key, now) ==
    LET cached == memoryCacheGet(cache, key)
    IN  IF cached # <<>> /\ ~(now < cached[1].expires)
        THEN memoryCacheDelete(cache, key)
        ELSE cache

\* the module is loaded (line 11), or setCache has been called
\* MAX_MEMORY_CACHE_SIZE times with keys of its own at time 0
CacheInit ==
    /\ \E n \in {0, MAX_MEMORY_CACHE_SIZE} : memoryCache = [i \in 1..n |-> filledEntry(i)]
    /\ cacheNow = 0
    /\ cacheCalls = <<>>
    /\ cacheCallCount = 0
    /\ cacheReturned = <<>>
    /\ cachePc = "loaded"

\* Date.now() moves on
CacheTick ==
    /\ cachePc = "loaded"
    /\ cacheNow < MaxTicks * tickMs
    /\ cacheNow' = cacheNow + tickMs
    /\ UNCHANGED <<memoryCache, cacheCalls, cacheCallCount, cacheReturned, cachePc>>
    /\ UNCHANGED notCacheVars

\* lines 72-74: the call awaits initRedisClient
CallSetCache ==
    /\ cachePc = "loaded"
    /\ cacheCallCount < MaxCacheCalls
    /\ \E key \in CacheKeyInputs, ttl \in TtlInputs :
          cacheCalls' = Append(cacheCalls, [op |-> "setCache", key |-> key, ttl |-> ttl])
    /\ cacheCallCount' = cacheCallCount + 1
    /\ UNCHANGED <<memoryCache, cacheNow, cacheReturned, cachePc>>
    /\ UNCHANGED notCacheVars

\* lines 94-96: the call awaits initRedisClient
CallGetCache ==
    /\ cachePc = "loaded"
    /\ cacheCallCount < MaxCacheCalls
    /\ \E key \in CacheKeyInputs :
          cacheCalls' = Append(cacheCalls, [op |-> "getCache", key |-> key, ttl |-> 0])
    /\ cacheCallCount' = cacheCallCount + 1
    /\ UNCHANGED <<memoryCache, cacheNow, cacheReturned, cachePc>>
    /\ UNCHANGED notCacheVars

\* lines 128-130: the call awaits initRedisClient
CallDeleteCache ==
    /\ cachePc = "loaded"
    /\ cacheCallCount < MaxCacheCalls
    /\ \E key \in CacheKeyInputs :
          cacheCalls' = Append(cacheCalls, [op |-> "deleteCache", key |-> key, ttl |-> 0])
    /\ cacheCallCount' = cacheCallCount + 1
    /\ UNCHANGED <<memoryCache, cacheNow, cacheReturned, cachePc>>
    /\ UNCHANGED notCacheVars

\* lines 146-148: the call awaits initRedisClient
CallClearCache ==
    /\ cachePc = "loaded"
    /\ cacheCallCount < MaxCacheCalls
    /\ cacheCalls' = Append(cacheCalls, [op |-> "clearCache", key |-> "", ttl |-> 0])
    /\ cacheCallCount' = cacheCallCount + 1
    /\ UNCHANGED <<memoryCache, cacheNow, cacheReturned, cachePc>>
    /\ UNCHANGED notCacheVars

\* the calls without the k-th
WithoutCall(k) ==
    [i \in 1..(Len(cacheCalls) - 1) |-> IF i < k THEN cacheCalls[i] ELSE cacheCalls[i + 1]]

\* lines 79-85: initRedisClient resolved to null and setCache stores the entry
SetCacheResumes ==
    /\ \E k \in DOMAIN cacheCalls :
          /\ cacheCalls[k].op = "setCache"
          /\ memoryCache' =
                setCache(memoryCache, cacheCalls[k].key, "v", cacheCalls[k].ttl, cacheNow)
          /\ cacheCalls' = WithoutCall(k)
    /\ UNCHANGED <<cacheNow, cacheCallCount, cacheReturned, cachePc>>
    /\ UNCHANGED notCacheVars

\* lines 108-118
GetCacheResumes ==
    /\ \E k \in DOMAIN cacheCalls :
          /\ cacheCalls[k].op = "getCache"
          /\ cacheReturned' = <<getCache(memoryCache, cacheCalls[k].key, cacheNow)>>
          /\ memoryCache' = afterGetCache(memoryCache, cacheCalls[k].key, cacheNow)
          /\ cacheCalls' = WithoutCall(k)
    /\ UNCHANGED <<cacheNow, cacheCallCount, cachePc>>
    /\ UNCHANGED notCacheVars

\* lines 134-136
DeleteCacheResumes ==
    /\ \E k \in DOMAIN cacheCalls :
          /\ cacheCalls[k].op = "deleteCache"
          /\ memoryCache' = memoryCacheDelete(memoryCache, cacheCalls[k].key)
          /\ cacheCalls' = WithoutCall(k)
    /\ UNCHANGED <<cacheNow, cacheCallCount, cacheReturned, cachePc>>
    /\ UNCHANGED notCacheVars

\* lines 152-154
ClearCacheResumes ==
    /\ \E k \in DOMAIN cacheCalls :
          /\ cacheCalls[k].op = "clearCache"
          /\ memoryCache' = <<>>
          /\ cacheCalls' = WithoutCall(k)
    /\ UNCHANGED <<cacheNow, cacheCallCount, cacheReturned, cachePc>>
    /\ UNCHANGED notCacheVars

\* lines 332-336: the callback of setInterval, redisClient being null
PeriodicCleanup ==
    /\ cachePc = "loaded"
    /\ memoryCache' = cleanupMemoryCache(memoryCache, cacheNow)
    /\ UNCHANGED <<cacheNow, cacheCalls, cacheCallCount, cacheReturned, cachePc>>
    /\ UNCHANGED notCacheVars

CacheNext ==
    \/ CacheTick
    \/ CallSetCache
    \/ CallGetCache
    \/ CallDeleteCache
    \/ CallClearCache
    \/ SetCacheResumes
    \/ GetCacheResumes
    \/ DeleteCacheResumes
    \/ ClearCacheResumes
    \/ PeriodicCleanup

CacheIdle ==
    /\ memoryCache = <<>>
    /\ cacheNow = 0
    /\ cacheCalls = <<>>
    /\ cacheCallCount = 0
    /\ cacheReturned = <<>>
    /\ cachePc = "idle"

(***************************************************************************)
(* Specifications                                                          *)
(***************************************************************************)
InitGaps ==
    /\ GapInit /\ ScoreIdle /\ SimIdle /\ AnalysisIdle /\ ScrapeIdle
    /\ ChunkIdle /\ CosIdle /\ CatIdle /\ TopicIdle
    /\ MatchIdle
    /\ RetryIdle
    /\ CacheIdle

SpecGaps == InitGaps /\ [][GapNext]_vars

InitScores ==
    /\ ScoreInit /\ GapIdle /\ SimIdle /\ AnalysisIdle /\ ScrapeIdle
    /\ ChunkIdle /\ CosIdle /\ CatIdle /\ TopicIdle
    /\ MatchIdle
    /\ RetryIdle
    /\ CacheIdle

SpecScores == InitScores /\ [][ScoreNext]_vars

InitSim ==
    /\ SimInit /\ GapIdle /\ ScoreIdle /\ AnalysisIdle /\ ScrapeIdle
    /\ ChunkIdle /\ CosIdle /\ CatIdle /\ TopicIdle
    /\ MatchIdle
    /\ RetryIdle
    /\ CacheIdle

SpecSim == InitSim /\ [][SimNext]_vars

InitAnalysis ==
    /\ AnalysisInit /\ GapIdle /\ ScoreIdle /\ SimIdle /\ ScrapeIdle
    /\ ChunkIdle /\ CosIdle /\ CatIdle /\ TopicIdle
    /\ MatchIdle
    /\ RetryIdle
    /\ CacheIdle

SpecAnalysis == InitAnalysis /\ [][AnalysisNext]_vars

InitScrape ==
    /\ ScrapeInit /\ GapIdle /\ ScoreIdle /\ SimIdle /\ AnalysisIdle /\ ChunkIdle
    /\ CosIdle /\ CatIdle /\ TopicIdle
    /\ MatchIdle
    /\ RetryIdle
    /\ CacheIdle

SpecScrape == InitScrape /\ [][ScrapeNext]_vars

InitChunks ==
    /\ ChunkInit /\ GapIdle /\ ScoreIdle /\ SimIdle /\ AnalysisIdle /\ ScrapeIdle
    /\ CosIdle /\ CatIdle /\ TopicIdle
    /\ MatchIdle
    /\ RetryIdle
    /\ CacheIdle

SpecChunks == InitChunks /\ [][ChunkNext]_vars

InitCos ==
    /\ CosInit /\ GapIdle /\ ScoreIdle /\ SimIdle /\ AnalysisIdle /\ ScrapeIdle
    /\ ChunkIdle /\ CatIdle /\ TopicIdle
    /\ MatchIdle
    /\ RetryIdle
    /\ CacheIdle

SpecCos == InitCos /\ [][CosNext]_vars

InitCat ==
    /\ CatInit /\ GapIdle /\ ScoreIdle /\ SimIdle /\ AnalysisIdle /\ ScrapeIdle
    /\ ChunkIdle /\ CosIdle /\ TopicIdle
    /\ MatchIdle
    /\ RetryIdle
    /\ CacheIdle

SpecCat == InitCat /\ [][CatNext]_vars

InitTopic ==
    /\ TopicInit /\ GapIdle /\ ScoreIdle /\ SimIdle /\ AnalysisIdle /\ ScrapeIdle
    /\ ChunkIdle /\ CosIdle /\ CatIdle
    /\ MatchIdle
    /\ RetryIdle
    /\ CacheIdle

SpecTopic == InitTopic /\ [][TopicNext]_vars

InitMatch ==
    /\ MatchInit /\ GapIdle /\ ScoreIdle /\ CosIdle /\ SimIdle
    /\ AnalysisIdle /\ ScrapeIdle /\ ChunkIdle /\ CatIdle /\ TopicIdle
    /\ RetryIdle
    /\ CacheIdle

SpecMatch == InitMatch /\ [][MatchNext]_vars

InitRetry ==
    /\ RetryInit /\ GapIdle /\ ScoreIdle /\ CosIdle /\ SimIdle
    /\ AnalysisIdle /\ ScrapeIdle /\ ChunkIdle /\ CatIdle /\ TopicIdle
    /\ MatchIdle
    /\ CacheIdle

SpecRetry == InitRetry /\ [][RetryNext]_vars

\* every request is answered or fails (the fetch of the page is aborted after
\* TIMEOUT, scraper.ts line 101) and every delay ends
SpecRetryFair == SpecRetry /\ WF_vars(RetryNext)

\* one call of either batched operation: analyzeContentSimilarity or
\* scrapeMultipleUrls
InitBatches == InitSim \/ InitScrape

BatchesNext == SimNext \/ ScrapeNext

SpecBatches == InitBatches /\ [][BatchesNext]_vars

InitCache ==
    /\ CacheInit /\ GapIdle /\ ScoreIdle /\ CosIdle /\ SimIdle
    /\ AnalysisIdle /\ ScrapeIdle /\ ChunkIdle /\ CatIdle /\ TopicIdle
    /\ MatchIdle /\ RetryIdle

SpecCache == InitCache /\ [][CacheNext]_vars

\* one call of identifyCoverageGaps, with the low scores
InitGapUrls ==
    /\ GapUrlsInit /\ ScoreIdle /\ CosIdle /\ SimIdle
    /\ AnalysisIdle /\ ScrapeIdle /\ ChunkIdle /\ CatIdle /\ TopicIdle
    /\ MatchIdle /\ RetryIdle /\ CacheIdle

GapUrlsNext == IdentifyCoverageGaps

SpecGapUrls == InitGapUrls /\ [][GapUrlsNext]_vars

(***************************************************************************)
(* Coverage gaps: C1 - C4                                                  *)
(***************************************************************************)
GapCallDone == gapPc \in {"done", "again"}

GapsOfCategory(gs, category) ==
    {i \in DOMAIN gs : gs[i].category = category}

\* the total of a category's scores over the competitors, one that lacks the
\* category counting 0
CategoryTotal(cResults, category) ==
    SumSeq([i \in DOMAIN cResults |->
        LET reported == {k \in DOMAIN cResults[i].categoryScores :
                            cResults[i].categoryScores[k].category = category}
        IN  IF reported = {} THEN 0
            ELSE cResults[i].categoryScores[MinOf(reported)].score])

\* targetScore < mean - points, the mean being 0 without competitors
BelowMeanBy(score, cResults, category, points) ==
    IF Len(cResults) = 0 THEN score < 0 - points
    ELSE score * Len(cResults) <
            CategoryTotal(cResults, category) - points * Len(cResults)

\* mean - targetScore >= points
MeanAboveBy(score, cResults, category, points) ==
    /\ Len(cResults) > 0
    /\ CategoryTotal(cResults, category) - score * Len(cResults)
            >= points * Len(cResults)

Scenario4(category) ==
    /\ \E i \in DOMAIN targetScores :
          targetScores[i] = [category |-> category, score |-> 50]
    /\ Len(competitorResults) = 2
    /\ ScoreOrZero(competitorResults[1].categoryScores, category) = 70
    /\ ScoreOrZero(competitorResults[2].categoryScores, category) = 90

\* C2: for a target score of 50 and competitors scoring 70 and 90 the category
\* has a gap of priority high.
C2_Scenario4IsHigh ==
    \A category \in GapCategories :
        (GapCallDone /\ Scenario4(category)) =>
            \E g \in DOMAIN gaps :
                gaps[g].category = category /\ gaps[g].priority = "high"

\* C3: every reported gap is classified by mean - targetScore as the README
\* states: 20 or more high, 10 to 20 medium, under 10 low.
C3_PriorityAsReadme ==
    GapCallDone =>
        \A g \in DOMAIN gaps :
        \A i \in DOMAIN targetScores :
            targetScores[i].category = gaps[g].category =>
                LET atLeast(points) ==
                        MeanAboveBy(targetScores[i].score, competitorResults,
                                    gaps[g].category, points)
                IN  gaps[g].priority =
                        IF atLeast(20) THEN "high"
                        ELSE IF atLeast(10) THEN "medium" ELSE "low"

\* a / b < c / d for fractions of positive denominators
FractionLess(a, b) == a.num * b.den < b.num * a.den

\* C4: when a second call differs from the first only in the competitors'
\* scores for a category and the competitor mean of that category is higher,
\* a gap of the category in the first result is in the second too, with a
\* priority that is not lower.
C4_GapMonotone ==
    gapPc = "again" =>
        \A category \in GapCategories :
            (/\ FractionLess(competitorAvg(category, prevCompetitorResults),
                             competitorAvg(category, competitorResults))
             /\ GapsOfCategory(prevGaps, category) # {})
            => /\ GapsOfCategory(gaps, category) # {}
               /\ \A g \in GapsOfCategory(gaps, category) :
                  \A h \in GapsOfCategory(prevGaps, category) :
                     priorityOrder(gaps[g].priority) >=
                        priorityOrder(prevGaps[h].priority)

\* a second call with a higher competitor mean in which the category's gap
\* went from low to high
C4_Witness ==
    /\ gapPc = "again"
    /\ \E category \in GapCategories :
          /\ FractionLess(competitorAvg(category, prevCompetitorResults),
                          competitorAvg(category, competitorResults))
          /\ \E h \in GapsOfCategory(prevGaps, category) :
                prevGaps[h].priority = "low"
          /\ \E g \in GapsOfCategory(gaps, category) :
                gaps[g].priority = "high"

(***************************************************************************)
(* Category scores: C5, C6                                                 *)
(***************************************************************************)
\* C5: the matchedQueries of the category scores add up to the number of
\* matched input matches, the totalQueries to the number of input matches, and
\* no category has more matched than total queries.
C5_AggregationConsistent ==
    scorePc = "done" =>
        /\ SumSeq([k \in DOMAIN categoryScores |-> categoryScores[k].matchedQueries])
              = Cardinality({i \in DOMAIN scoreMatches : scoreMatches[i].matched})
        /\ SumSeq([k \in DOMAIN categoryScores |-> categoryScores[k].totalQueries])
              = Len(scoreMatches)
        /\ \A k \in DOMAIN categoryScores :
              categoryScores[k].matchedQueries <= categoryScores[k].totalQueries

\* scores of two categories, one holding a matched and an unmatched match
C5_Witness ==
    /\ scorePc = "done"
    /\ Len(categoryScores) = 2
    /\ \E k \in DOMAIN categoryScores :
          /\ categoryScores[k].matchedQueries = 1
          /\ categoryScores[k].totalQueries = 2

\* C6: the result holds exactly one category score for each category that
\* occurs in the input and none for another category.
C6_CategoriesAsObserved ==
    scorePc = "done" =>
        /\ {categoryScores[k].category : k \in DOMAIN categoryScores}
              = {scoreMatches[i].category : i \in DOMAIN scoreMatches}
        /\ \A k, l \in DOMAIN categoryScores :
              categoryScores[k].category = categoryScores[l].category => k = l

\* three matches of two categories give two category scores
C6_Witness ==
    /\ scorePc = "done"
    /\ Len(scoreMatches) = 3
    /\ Len(categoryScores) = 2

(***************************************************************************)
(* Content similarity: C7 - C9                                             *)
(***************************************************************************)
\* how often a query occurs in a list of queries
Occurrences(queries, query) ==
    Cardinality({i \in DOMAIN queries : queries[i] = query})

\* C7: the returned list has one record for each input query, as often as
\* the query occurs in the input, and is in non-increasing order of similarity.
C7_OnePerQuerySorted ==
    simPc = "done" =>
        /\ Len(simResults) = Len(simQueries)
        /\ \A i \in DOMAIN simQueries :
              Occurrences([k \in DOMAIN simResults |-> simResults[k].query],
                          simQueries[i])
                = Occurrences(simQueries, simQueries[i])
        /\ \A k \in 1..(Len(simResults) - 1) :
              simResults[k].similarity >= simResults[k + 1].similarity

\* two batches with a repeated query and a failed one, returned in another
\* order than the queries were given
C7_Witness ==
    /\ simPc = "done"
    /\ Len(simQueries) > batchSize
    /\ simFailedQueries # {}
    /\ simResults[1].similarity > simResults[Len(simResults)].similarity
    /\ simResults[1].query # simQueries[1]

\* the statement of C8 for the results of a call
MatchedIffAtLeastThreshold ==
    \A k \in DOMAIN simResults :
        simResults[k].matched <=> (simResults[k].similarity >= simThreshold)

\* C8 as claimed: for any threshold, every returned record is matched exactly
\* when its similarity is at least the threshold.
C8_MatchedIffAtLeastThreshold == simPc = "done" => MatchedIffAtLeastThreshold

\* C8 as amended: for any threshold above 0, every returned record (those of
\* failed queries and of a content without chunks too) is matched exactly when
\* its similarity is at least the threshold.
C8_MatchedIffAtLeastPositiveThreshold ==
    (simPc = "done" /\ simThreshold > 0) => MatchedIffAtLeastThreshold

\* a call with a positive threshold that returns the record of a failed
\* query and a record whose similarity is the threshold
C8_Witness ==
    /\ simPc = "done"
    /\ simThreshold > 0
    /\ simFailedQueries # {}
    /\ \E k \in DOMAIN simResults :
          simResults[k].matched /\ simResults[k].similarity = simThreshold

\* what C9 says of the record of the query at position q
FitsQuery(record, q) ==
    IF q \in simFailedQueries
    THEN /\ record.query = simQueries[q]
         /\ record.similarity = 0
         /\ ~record.matched
         /\ record.category = "general"
    ELSE record = embeddedMatch(simQueries[q], validChunkEmbeddings, simThreshold)

\* C9: the call returns, for each query whose embedding request failed, a
\* record of similarity 0, unmatched and of category "general", and for each
\* other query the record it has when no request fails.
C9_FailureIsolated ==
    simPc = "done" =>
        /\ Len(simResults) = Len(simQueries)
        /\ \A q \in DOMAIN simQueries :
              Cardinality({k \in DOMAIN simResults : FitsQuery(simResults[k], q)})
                = Cardinality({p \in DOMAIN simQueries :
                     /\ simQueries[p] = simQueries[q]
                     /\ (p \in simFailedQueries) <=> (q \in simFailedQueries)})

\* one failed query in the first of two batches, and a matched record
C9_Witness ==
    /\ simPc = "done"
    /\ Len(simQueries) > batchSize
    /\ Cardinality(simFailedQueries) = 1
    /\ simFailedQueries \subseteq 1..batchSize
    /\ \E k \in DOMAIN simResults : simResults[k].matched

\* C10: performContentAnalysis raises instead of returning whenever no chunk
\* of the target could be embedded (every request failed, or the content has
\* no chunks) or the target has no category scores, and a call that raised
\* did so before any query or competitor was analysed
C10_RaisesWithoutTargetEmbedding ==
    /\ analysisPc = "returned" =>
          /\ targetEmbeddedChunks > 0
          /\ targetCategoryScores # <<>>
    /\ analysisPc = "raised" =>
          /\ targetMatches = <<>>
          /\ analysisCompetitorResults = <<>>

(***************************************************************************)
(* Vectors of different lengths: C11                                       *)
(***************************************************************************)
\* the queries of the call whose comparison with a chunk threw
ThrewOnLength ==
    {q \in simOtherLengthQueries :
        comparisonThrows(OtherLengthEmbedding(simQueries[q]), validChunkEmbeddings)}

\* C11: cosineSimilarity raises for vectors of different lengths, and a call
\* of analyzeContentSimilarity in which it raised for a query does not return
\* a record of similarity 0, unmatched, for that query.
C11_LengthMismatchIsFatal ==
    /\ \A q \in simOtherLengthQueries : \A k \in DOMAIN validChunkEmbeddings :
          cosineSimilarityThrows(OtherLengthEmbedding(simQueries[q]),
                                 validChunkEmbeddings[k].embedding)
    /\ simPc = "done" =>
          \A q \in ThrewOnLength :
              ~\E k \in DOMAIN simResults :
                  /\ simResults[k].query = simQueries[q]
                  /\ simResults[k].similarity = 0
                  /\ ~simResults[k].matched

(***************************************************************************)
(* Scraping several urls: C12                                              *)
(***************************************************************************)
\* C12: the list scrapeMultipleUrls returns is as long as urls, and position
\* i holds the content scraped from urls[i] if that scrape succeeded and null
\* if it threw, in whatever order the scrapes of a batch settled; every run
\* ends by returning.
C12_ResultsByPosition ==
    /\ scrapePc \in {"call", "loop", "await", "done", "idle"}
    /\ scrapePc = "done" =>
          /\ Len(scrapeResults) = Len(scrapeUrls)
          /\ \A i \in DOMAIN scrapeUrls :
                scrapeResults[i] =
                    IF i \in scrapeFailed THEN <<>>
                    ELSE <<scrapeContent(scrapeUrls[i])>>

\* two batches of different urls, with a scrape of the second position that
\* threw before the one of the first position settled
C12_Witness ==
    /\ scrapePc = "done"
    /\ Len(scrapeUrls) > scrapeConcurrency
    /\ scrapeConcurrency > 1
    /\ scrapeUrls[1] # scrapeUrls[2]
    /\ scrapeFailed = {1, 2, Len(scrapeUrls)}
    /\ scrapeErrors[1] = scrapeUrls[2]

(***************************************************************************)
(* Chunks: C13 - C15                                                       *)
(***************************************************************************)
\* C13: no chunk chunkContent returns is longer than the max chunk size.
C13_ChunksWithinMax ==
    chunkPc = "done" =>
        \A k \in DOMAIN chunksReturned : Len(chunksReturned[k]) <= maxChunkSize

\* C14: chunkContent returns the candidate chunks of 50 characters or more,
\* in their order, and none of the shorter ones.
C14_FilterBelow50 ==
    chunkPc = "done" =>
        chunksReturned = SelectSeq(chunks, LAMBDA chunk : Len(chunk) >= 50)

\* C15: every chunk chunkContent returns is a contiguous substring of the
\* content.
C15_ChunksAreSubstrings ==
    chunkPc = "done" =>
        \A k \in DOMAIN chunksReturned : IsSubstring(chunksReturned[k], content)

(***************************************************************************)
(* Cosine similarity: C16                                                  *)
(***************************************************************************)
FloatOne == FloatOfInt(1)

FloatMinusOne == FloatOfInt(-1)

\* C16: for vectors of the same length cosineSimilarity returns (it does not
\* throw) 0 when one of them has norm 0, the empty vectors included, and
\* otherwise a number from -1 to 1 that is 1 when the vectors are equal.
C16_CosineInRange ==
    /\ cosPc = "threw" => Len(cosA) # Len(cosB)
    /\ cosPc = "returned" =>
          LET result == cosResult[1]
          IN  IF DotProduct(cosA, cosA) = 0 \/ DotProduct(cosB, cosB) = 0
              THEN result = FloatZero
              ELSE /\ ~FloatLess(result, FloatMinusOne)
                   /\ ~FloatLess(FloatOne, result)
                   /\ cosA = cosB => result = FloatOne

(***************************************************************************)
(* Categories of queries: C17                                              *)
(***************************************************************************)
\* the categories in the order C17 gives
C17_Order ==
    <<"Technical", "Marketing", "SEO", "Content", "Business", "Design", "Analytics">>

\* the places in that order of the categories with a keyword that is a
\* substring of the lower-cased query
CategoriesHit(query) ==
    {i \in DOMAIN C17_Order :
        \E k \in DOMAIN categories :
            /\ categories[k].category = C17_Order[i]
            /\ \E keyword \in categories[k].keywords :
                  IsSubstring(KeywordText(keyword), toLowerCase(query))}

\* C17: categorizeQuery returns the first category, in the order Technical,
\* Marketing, SEO, Content, Business, Design, Analytics, with a keyword that
\* is a substring of the lower-cased query, "General" when there is none, and
\* "SEO" for "best SEO keyword ranking tool"; the result is a function of the
\* query (the one of categorizeQuery for the queries of the analysis).
C17_FirstCategoryInOrder ==
    catPc = "returned" =>
        /\ catResult[1] =
              IF CategoriesHit(catQuery) = {} THEN "General"
              ELSE C17_Order[MinOf(CategoriesHit(catQuery))]
        /\ catQuery = QueryText("best SEO keyword ranking tool") => catResult[1] = "SEO"
        /\ \A query \in Range(QueryPool) \cup Range(DefaultQueries) :
              catQuery = QueryText(query) => catResult[1] = categorizeQuery(query)

\* a query with keywords of two categories, given the first of them
C17_Witness ==
    /\ catPc = "returned"
    /\ catQuery = QueryText("content marketing strategies")
    /\ Cardinality(CategoriesHit(catQuery)) = 2
    /\ catResult = <<"Marketing">>

(***************************************************************************)
(* Primary topic: C18 - C20                                                *)
(***************************************************************************)
\* the first offer of the text entity by each of the sources of the content
\* that offers it, in the order of the sources
FirstOffers(c, entity) ==
    LET sources == allSourcesOf(c)
        Offers(k) == SelectSeq(offeredBy(sources[k].text, sources[k].source),
                               LAMBDA offer : offer.entity = entity)
        offering == SelectSeq([k \in DOMAIN sources |-> k], LAMBDA k : Offers(k) # <<>>)
    IN  [j \in DOMAIN offering |-> Offers(offering[j])[1]]

RECURSIVE SumOfScores(_, _)
SumOfScores(offers, k) ==
    IF k = 0 THEN FloatZero ELSE FloatPlus(SumOfScores(offers, k - 1), offers[k].score)

\* C18: after the collection of the candidates of Phase B, the score of a
\* candidate is the sum of what each source that offered its text contributes,
\* and its sources are all the sources that offered it.
C18_ScoresSummedAcrossSources ==
    topicPc = "boost" =>
        \A i \in DOMAIN candidates :
            LET offers == FirstOffers(topicContent, candidates[i].entity)
            IN  /\ candidates[i].score = SumOfScores(offers, Len(offers))
                /\ Range(candidates[i].sources) = {offer.sources[1] : offer \in Range(offers)}

\* the content of the scenario of C19
AcmeContent ==
    /\ topicContent.title = Text("Acme Corp - Digital Marketing Agency")
    /\ topicContent.url = Text("https://acmecorp.com/")
    /\ topicContent.metaDescription = <<>>
    /\ topicContent.headings = <<>>
    /\ topicContent.bodyText = <<>>

\* a string that starts with http:// or https://
IsRawUrl(str) == \E scheme \in Schemes : startsWith(str, scheme)

\* C19: for the title "Acme Corp - Digital Marketing Agency", the URL
\* https://acmecorp.com/, no meta description, no headings, an empty body and
\* no LLM key, the entity returned is no URL and its entityType is
\* Organization.
C19_AcmeIsOrganization ==
    topicPc = "done" /\ AcmeContent /\ ~apiKey =>
        /\ ~IsRawUrl(topicResult.entity)
        /\ topicResult.entityType = "Organization"

\* C20: the entity returned is neither a string that starts with http:// or
\* https:// nor the bare domain of the URL of the page, with the LLM and
\* without it.
C20_EntityIsNoUrl ==
    topicPc = "done" =>
        /\ ~IsRawUrl(topicResult.entity)
        /\ urlParses(topicContent.url) =>
              topicResult.entity # extractDomain(topicContent.url)

(***************************************************************************)
(* Primary topic: C21 - C24                                                *)
(***************************************************************************)
\* C21: the subEntities of the topic returned are at most 5 and do not hold
\* the entity returned, also when the best candidate was a URL or the bare
\* domain and a brand candidate took its place.
C21_SubEntitiesExcludeEntity ==
    topicPc = "done" =>
        /\ Len(topicResult.subEntities) <= maxSubEntities
        /\ topicResult.entity \notin Range(topicResult.subEntities)

\* the values of a confidence: the doubles of 0 to 1
InUnitInterval(x) ==
    /\ x # FloatNaN
    /\ ~x.neg
    /\ ~FloatGreater(x, FloatOfInt(1))

\* C22: the confidence of the topic that extractPrimaryTopic or
\* extractPrimaryTopicSafely returns is a number of 0 to 1, for the reply of the
\* LLM, for the extracted concept or service that takes its place, for the
\* result of Phase B and for the fallbacks.
C22_ConfidenceInUnitInterval ==
    topicPc \in {"done", "safelyDone"} => InUnitInterval(topicResult.confidence)

\* line 7: the values of PrimaryTopic.entityType
EntityTypes ==
    {"Person", "Organization", "Product", "Location", "Concept", "Event", "Service"}

\* C23: the entityType of the topic that extractPrimaryTopic returns is one of
\* Person, Organization, Product, Location, Concept, Event and Service,
\* whatever entityType the reply of the LLM holds.
C23_EntityTypeInEnum ==
    topicPc = "done" => topicResult.entityType \in EntityTypes

\* the result of Phase B (lines 135-342) for the content c
PhaseB(c) ==
    LET collected == collectCandidates(c)
        boosted == boostCandidates(collected, c.url)
        counted == addBodyFrequencies(boosted, c.bodyText)
        weak == counted = <<>> \/ noStrongCandidate(counted)
        bodyEntities == IF weak THEN fallbackBodyEntitiesOf(c.bodyText) ELSE <<>>
        all == IF weak THEN addBodyEntities(counted, bodyEntities, c.url) ELSE counted
        chosen == selectBest(all)
        subs == subEntitiesOf(all, chosen.entity)
        final == replaceUrl(chosen, all, c.url)
    IN  IF Len(final.entity) < 2 THEN fallbackTopic(c, bodyEntities)
        ELSE heuristicTopic(final, subs)

\* a step of a detection: a request to the LLM is the first one; the request
\* that is not answered by an acceptable entity is followed by Phase B and by
\* no other request; and what Phase B returns is its result for the content
C24_Step ==
    /\ llmRequests' # llmRequests =>
          topicPc = "start" /\ llmRequests = 0 /\ llmRequests' = 1
    /\ topicPc = "awaiting" /\ topicPc' = "done" =>
          \E reply \in LlmReplyInputs :
              /\ reply.parses
              /\ Len(reply.entity) > 2
              /\ ~IsRawUrl(reply.entity)
              /\ topicResult' = llmTopic(reply, topicContent.extractedEntities)
    /\ topicPc = "awaiting" /\ topicPc' # "done" =>
          topicPc' \in {"awaiting", "collect"} /\ llmRequests' = llmRequests
    /\ topicPc \notin {"start", "awaiting"} => topicPc' \notin {"start", "awaiting"}
    /\ topicPc # "done" /\ topicPc' = "done" /\ topicPc # "awaiting" =>
          topicResult' = PhaseB(topicContent)

\* C24: when the request to the LLM throws, is answered with a status that is
\* not OK, with an empty reply or with a reply that gives no acceptable entity,
\* the detection makes no other request and returns the result of Phase B; a
\* call makes at most one request.
C24_OneRequestThenPhaseB ==
    [](llmRequests <= 1) /\ [][C24_Step]_vars

\* a detection that asked the LLM once, in vain, and returned the result of
\* Phase B for a content with candidates
C24_Witness ==
    /\ topicPc = "done"
    /\ apiKey
    /\ llmRequests = 1
    /\ candidates # <<>>
    /\ topicResult = PhaseB(topicContent)
    /\ topicResult.subEntities # <<>>

(***************************************************************************)
(* Analysis: C25 - C26                                                     *)
(***************************************************************************)
\* the elements of sub occur in seq in the order of sub
RECURSIVE IsSubsequence(_, _)
IsSubsequence(sub, seq) ==
    IF sub = <<>> THEN TRUE
    ELSE IF seq = <<>> THEN FALSE
    ELSE IF Head(sub) = Head(seq) THEN IsSubsequence(Tail(sub), Tail(seq))
    ELSE IsSubsequence(sub, Tail(seq))

\* C25: in the result of performContentAnalysis the missingQueries of a
\* coverage gap are at most 5, each is a query of the target that is not
\* matched and has the category of the gap, and they stand in the order of
\* the list of the queries analysed.
C25_MissingQueriesInOrder ==
    analysisPc = "returned" =>
        \A g \in DOMAIN analysisResult[1].coverageGaps :
            LET gap == analysisResult[1].coverageGaps[g]
            IN  /\ Len(gap.missingQueries) <= 5
                /\ \A k \in DOMAIN gap.missingQueries :
                      \E m \in DOMAIN targetMatches :
                          /\ targetMatches[m].query = gap.missingQueries[k]
                          /\ targetMatches[m].category = gap.category
                          /\ ~targetMatches[m].matched
                /\ IsSubsequence(gap.missingQueries, allQueries)

\* the chunks of the call whose cosine similarity to the query is above 0
PositiveChunks ==
    {k \in DOMAIN matchChunkEmbeddings :
        FloatGreater(cosineSimilarityDouble(matchQueryEmbedding, matchChunkEmbeddings[k]),
                     FloatZero)}

\* C26: the similarity of a QueryMatch of analyzeContentSimilarity is a number
\* of 0 to 1; when no chunk has a cosine similarity above 0 to the query, or
\* no chunk embedding survived, the record has similarity 0, an empty
\* context and bestChunkIndex -1.
C26_SimilarityInUnitInterval ==
    matchPc = "returned" =>
        /\ InUnitInterval(matchResult[1].similarity)
        /\ PositiveChunks = {} =>
              /\ matchResult[1].similarity = FloatZero
              /\ matchResult[1].context = <<>>
              /\ matchResult[1].bestChunkIndex = -1

(***************************************************************************)
(* Scraping one url: C27                                                   *)
(***************************************************************************)
\* the call has returned or thrown
RetryOver == retryPc \in {"returned", "threw"}

\* how many requests of a kind the call has sent
RequestsOf(kind) == Cardinality({k \in DOMAIN requests : requests[k] = kind})

\* what C27 says of a state of a call
C27_Attempts ==
    /\ RequestsOf("firecrawl") <= 1
    /\ RequestsOf("fallback") <= 3
    /\ \A k \in DOMAIN requests :
          requests[k] = "firecrawl" => k = 1 /\ firecrawlApiKey
    /\ ~(retryUrl.parses /\ retryUrl.protocol \in {"http:", "https:"}) =>
          /\ requests = <<>>
          /\ RetryOver => /\ retryPc = "threw"
                          /\ retryOutcome[1].threw.name = "ScrapingError"
                          /\ retryOutcome[1].threw.url = retryUrl.url
    /\ retryPc = "returned" =>
          /\ requests # <<>>
          /\ retryOutcome[1].returned.by = requests[Len(requests)]
          /\ retryOutcome[1].returned.url = retryUrl.url
    /\ (retryPc = "threw" /\ requests # <<>>) =>
          /\ RequestsOf("fallback") = 3
          /\ RequestsOf("firecrawl") = IF firecrawlApiKey THEN 1 ELSE 0
          /\ retryOutcome[1].threw.name = "ScrapingError"
          /\ retryOutcome[1].threw.url = retryUrl.url

SettledQueries == (1..Len(simResults)) \cup DOMAIN simBatchResults

\* the positions of urls whose scrape returned or threw
SettledScrapes ==
    {k \in DOMAIN scrapeResults : scrapeResults[k] # <<>>} \cup scrapeFailed

C28_Outstanding ==
    /\ Cardinality(simPending) <= batchSize
    /\ Cardinality(scrapePending) <= scrapeConcurrency

C28_Step ==
    /\ simPending' \ simPending # {} =>
          /\ simPending = {}
          /\ \A q \in simPending' :
                \A p \in (1..(q - 1)) \ simPending' : p \in SettledQueries
    /\ scrapePending' \ scrapePending # {} =>
          /\ scrapePending = {}
          /\ \A q \in scrapePending' :
                \A p \in (1..(q - 1)) \ scrapePending' : p \in SettledScrapes

\* C28: in analyzeContentSimilarity at most 5 query-embedding requests are
\* outstanding at any moment and no query of a batch is started before every
\* query of the batches before it has settled; in scrapeMultipleUrls at most
\* `concurrency` scrapes are outstanding and a batch starts only after
\* every scrape of the batches before it has settled
C28_Batched == []C28_Outstanding /\ [][C28_Step]_vars

\* the second batch of more than five queries is in flight after the five
\* queries of the first have settled
C28_Witness ==
    /\ simPc = "await"
    /\ simOffset = batchSize
    /\ simPending # {}
    /\ Len(simResults) = batchSize

(***************************************************************************)
(* Memory cache: C29                                                       *)
(***************************************************************************)

SetCacheInProgress == \E k \in DOMAIN cacheCalls : cacheCalls[k].op = "setCache"

\* C29: with no setCache call in progress the memory cache holds at most
\* MAX_MEMORY_CACHE_SIZE entries, and a value that getCache returned was
\* that of an entry whose expiry time had not passed when getCache read the
\* clock
C29_BoundedAndFresh ==
    /\ ~SetCacheInProgress => Len(memoryCache) <= MAX_MEMORY_CACHE_SIZE
    /\ \A returned \in Range(cacheReturned) :
          returned.data # <<>> =>
             /\ returned.cached # <<>>
             /\ returned.now < returned.cached[1].expires

\* setCache stored a new key in a full cache of which nothing had expired,
\* and cleanupMemoryCache removed the entry that was the first to expire
C29_Witness ==
    /\ ~SetCacheInProgress
    /\ Len(memoryCache) = MAX_MEMORY_CACHE_SIZE
    /\ memoryCacheGet(memoryCache, "a") # <<>>
    /\ memoryCacheGet(memoryCache, "2") = <<>>

(***************************************************************************)
(* Coverage gaps: C30                                                      *)
(***************************************************************************)

\* the competitors that report the category with a score above the target's
ScoringAbove(category) ==
    {i \in DOMAIN competitorResults :
        \E s \in Range(competitorResults[i].categoryScores) :
           /\ s.category = category
           /\ \A t \in Range(targetScores) : t.category = category => s.score > t.score}

\* C30: every gap that identifyCoverageGaps returns names at least one
\* competitor url, and every url it names is that of a competitor that
\* reports the gap's category with a score strictly greater than the
\* target's score for the category
C30_CompetitorUrlsScoreAbove ==
    gapPc = "done" =>
       \A g \in Range(gaps) :
          /\ g.competitorUrls # <<>>
          /\ \A url \in Range(g.competitorUrls) :
                \E i \in ScoringAbove(g.category) : competitorResults[i].url = url

\* a gap is returned for a category that one competitor scores above the
\* target and another competitor reports without scoring above it
C30_Witness ==
    /\ gapPc = "done"
    /\ \E g \in Range(gaps) :
          /\ g.competitorUrls # <<>>
          /\ \E i \in DOMAIN competitorResults :
                /\ FindCategory(competitorResults[i].categoryScores, g.category) # <<>>
                /\ i \notin ScoringAbove(g.category)

====
